---- MODULE Spec2Model ----
(***************************************************************************)
(* A model of the DRBG core of drbg-benchmark: the SHA-256 engine, the     *)
(* HMAC construction, the simplified SPN block cipher and the three        *)
(* generators CTR_DRBG, Hash_DRBG and HMAC_DRBG (drbg.hpp / drbg.cpp).     *)
(*                                                                         *)
(* Bytes are naturals 0..255, byte vectors are sequences (index 1 is the   *)
(* C++ index 0).  A uint32_t is the pair <<hi, lo>> of its 16-bit halves,  *)
(* because a 32-bit unsigned value does not fit the checker's integers;    *)
(* every word operation reduces modulo 2^32 through the halves.            *)
(***************************************************************************)
EXTENDS Integers, Sequences, FiniteSets, TLC

\* F(v) for v the value of x: x is evaluated once, before F is entered (C++
\* evaluates an initializer once; a TLA+ definition is re-read at every use).
Bind(x, F(_)) == CHOOSE r \in {F(v) : v \in {x}} : TRUE

\* The vector <<F(1), ..., F(n)>>, every element computed when it is built.
Vector(n, F(_)) == [i \in 1..n |-> F(i)] \o <<>>

----------------------------------------------------------------------------
(* Bitwise arithmetic on bytes, 16-bit halves and 32-bit words.            *)

\* Bit i (0 = least significant) of a 4-bit value.
Bit(a, i) == (a \div (2 ^ i)) % 2

XorBits(a, b) ==
    ((Bit(a, 0) + Bit(b, 0)) % 2) + ((Bit(a, 1) + Bit(b, 1)) % 2) * 2
    + ((Bit(a, 2) + Bit(b, 2)) % 2) * 4 + ((Bit(a, 3) + Bit(b, 3)) % 2) * 8

AndBits(a, b) ==
    (Bit(a, 0) * Bit(b, 0)) + (Bit(a, 1) * Bit(b, 1)) * 2
    + (Bit(a, 2) * Bit(b, 2)) * 4 + (Bit(a, 3) * Bit(b, 3)) * 8

\* Tables, computed once: entry [a + 1][b + 1] holds a ^ b (a & b), first for
\* 4-bit operands and from those for uint8_t operands.  (Concatenating with
\* <<>> turns a function into an explicit tuple.)
XorNibble == [a \in 1..16 |-> [b \in 1..16 |-> XorBits(a - 1, b - 1)] \o <<>>] \o <<>>
AndNibble == [a \in 1..16 |-> [b \in 1..16 |-> AndBits(a - 1, b - 1)] \o <<>>] \o <<>>

XorByte ==
    [a \in 1..256 |->
        [b \in 1..256 |->
            XorNibble[((a - 1) \div 16) + 1][((b - 1) \div 16) + 1] * 16
            + XorNibble[((a - 1) % 16) + 1][((b - 1) % 16) + 1]] \o <<>>] \o <<>>
AndByte ==
    [a \in 1..256 |->
        [b \in 1..256 |->
            AndNibble[((a - 1) \div 16) + 1][((b - 1) \div 16) + 1] * 16
            + AndNibble[((a - 1) % 16) + 1][((b - 1) % 16) + 1]] \o <<>>] \o <<>>

Xor8(a, b) == XorByte[a + 1][b + 1]
And8(a, b) == AndByte[a + 1][b + 1]

Xor16(a, b) == Xor8(a \div 256, b \div 256) * 256 + Xor8(a % 256, b % 256)
And16(a, b) == And8(a \div 256, b \div 256) * 256 + And8(a % 256, b % 256)

WXor(x, y) == <<Xor16(x[1], y[1]), Xor16(x[2], y[2])>>
WAnd(x, y) == <<And16(x[1], y[1]), And16(x[2], y[2])>>
WNot(x) == <<65535 - x[1], 65535 - x[2]>>

\* An addition of uint32_t values that stops at 2^32 - 1 instead of wrapping.
WAdd_saturating(x, y) ==
    IF x[1] + y[1] + ((x[2] + y[2]) \div 65536) >= 65536 THEN <<65535, 65535>>
    ELSE <<x[1] + y[1] + ((x[2] + y[2]) \div 65536), (x[2] + y[2]) % 65536>>

\* uint32_t addition: wraps modulo 2^32.
WAdd(x, y) ==
    LET lo == x[2] + y[2]
        hi == x[1] + y[1] + (lo \div 65536)
    IN <<hi % 65536, lo % 65536>>

\* x >> n on a uint32_t, 0 < n < 32.
shr(x, n) ==
    IF n >= 16 THEN <<0, x[1] \div (2 ^ (n - 16))>>
    ELSE <<x[1] \div (2 ^ n),
           (x[2] \div (2 ^ n)) + (x[1] % (2 ^ n)) * (2 ^ (16 - n))>>

\* (x >> n) | (x << (32 - n)) on a uint32_t, 0 < n < 32.
rotr(x, n) ==
    LET y == IF n >= 16 THEN <<x[2], x[1]>> ELSE x
        m == IF n >= 16 THEN n - 16 ELSE n
    IN IF m = 0 THEN y
       ELSE <<(y[1] \div (2 ^ m)) + (y[2] % (2 ^ m)) * (2 ^ (16 - m)),
              (y[2] \div (2 ^ m)) + (y[1] % (2 ^ m)) * (2 ^ (16 - m))>>

\* a ^ b ^ c on uint32_t, each operand evaluated once.
WXor3(a, b, c) ==
    Bind(a, LAMBDA x : Bind(b, LAMBDA y : Bind(WXor(x, y), LAMBDA xy :
    Bind(c, LAMBDA z : WXor(xy, z)))))

ch(x, y, z) ==
    Bind(WAnd(x, y), LAMBDA a : Bind(WAnd(WNot(x), z), LAMBDA b : WXor(a, b)))

maj(x, y, z) == WXor3(WAnd(x, y), WAnd(x, z), WAnd(y, z))

sigma0(x) == WXor3(rotr(x, 2), rotr(x, 13), rotr(x, 22))

sigma1(x) == WXor3(rotr(x, 6), rotr(x, 11), rotr(x, 25))

gamma0(x) == WXor3(rotr(x, 7), rotr(x, 18), shr(x, 3))

gamma1(x) == WXor3(rotr(x, 17), rotr(x, 19), shr(x, 10))

----------------------------------------------------------------------------
(* SHA-256.                                                                *)

SHA256_K == <<
    <<\h428a, \h2f98>>, <<\h7137, \h4491>>, <<\hb5c0, \hfbcf>>, <<\he9b5, \hdba5>>,
    <<\h3956, \hc25b>>, <<\h59f1, \h11f1>>, <<\h923f, \h82a4>>, <<\hab1c, \h5ed5>>,
    <<\hd807, \haa98>>, <<\h1283, \h5b01>>, <<\h2431, \h85be>>, <<\h550c, \h7dc3>>,
    <<\h72be, \h5d74>>, <<\h80de, \hb1fe>>, <<\h9bdc, \h06a7>>, <<\hc19b, \hf174>>,
    <<\he49b, \h69c1>>, <<\hefbe, \h4786>>, <<\h0fc1, \h9dc6>>, <<\h240c, \ha1cc>>,
    <<\h2de9, \h2c6f>>, <<\h4a74, \h84aa>>, <<\h5cb0, \ha9dc>>, <<\h76f9, \h88da>>,
    <<\h983e, \h5152>>, <<\ha831, \hc66d>>, <<\hb003, \h27c8>>, <<\hbf59, \h7fc7>>,
    <<\hc6e0, \h0bf3>>, <<\hd5a7, \h9147>>, <<\h06ca, \h6351>>, <<\h1429, \h2967>>,
    <<\h27b7, \h0a85>>, <<\h2e1b, \h2138>>, <<\h4d2c, \h6dfc>>, <<\h5338, \h0d13>>,
    <<\h650a, \h7354>>, <<\h766a, \h0abb>>, <<\h81c2, \hc92e>>, <<\h9272, \h2c85>>,
    <<\ha2bf, \he8a1>>, <<\ha81a, \h664b>>, <<\hc24b, \h8b70>>, <<\hc76c, \h51a3>>,
    <<\hd192, \he819>>, <<\hd699, \h0624>>, <<\hf40e, \h3585>>, <<\h106a, \ha070>>,
    <<\h19a4, \hc116>>, <<\h1e37, \h6c08>>, <<\h2748, \h774c>>, <<\h34b0, \hbcb5>>,
    <<\h391c, \h0cb3>>, <<\h4ed8, \haa4a>>, <<\h5b9c, \hca4f>>, <<\h682e, \h6ff3>>,
    <<\h748f, \h82ee>>, <<\h78a5, \h636f>>, <<\h84c8, \h7814>>, <<\h8cc7, \h0208>>,
    <<\h90be, \hfffa>>, <<\ha450, \h6ceb>>, <<\hbef9, \ha3f7>>, <<\hc671, \h78f2>>
>>

\* uint32_t h[8], the initial hash values.
SHA256_H0 == <<
    <<\h6a09, \he667>>, <<\hbb67, \hae85>>, <<\h3c6e, \hf372>>, <<\ha54f, \hf53a>>,
    <<\h510e, \h527f>>, <<\h9b05, \h688c>>, <<\h1f83, \hd9ab>>, <<\h5be0, \hcd19>>
>>

\* A padding loop that appends a zero before it tests the length.
PadCount_extra(n) == CHOOSE k \in 1..64 : (n + k) % 64 = 56

\* while ((padded.size() % 64) != 56) padded.push_back(0x00): the zeros
\* appended to a vector of n bytes are the fewest that end the loop.
PadCount(n) == CHOOSE k \in 0..63 : (n + k) % 64 = 56

PadZeros(p) == p \o Vector(PadCount(Len(p)), LAMBDA i : 0)

\* (x >> (i * 8)) & 0xFF for a uint64_t x and i in 0..7.  Every 64-bit value
\* of the model (a bit length, a reseed counter) is below 2^31, so bytes 4..7
\* are zero.
ByteOf64(x, i) == IF i >= 4 THEN 0 ELSE (x \div (2 ^ (8 * i))) % 256

\* The padded message: data, 0x80, zeros, the bit length as 64-bit big-endian.
sha256_pad(data) ==
    Bind(Len(data) * 8,
         LAMBDA original_bit_len :
    Bind(Append(data, 128),
         LAMBDA padded :
         PadZeros(padded) \o Vector(8, LAMBDA j : ByteOf64(original_bit_len, 8 - j))))

\* w[0..15]: the chunk that starts at (0-based) offset chunk, read big-endian.
ChunkWords(padded, chunk) ==
    Vector(16, LAMBDA i :
        <<padded[chunk + (i - 1) * 4 + 1] * 256 + padded[chunk + (i - 1) * 4 + 2],
          padded[chunk + (i - 1) * 4 + 3] * 256 + padded[chunk + (i - 1) * 4 + 4]>>)

\* w[i] = gamma1(w[i-2]) + w[i-7] + gamma0(w[i-15]) + w[i-16], i = 16..63.
ExtendWord(w) ==
    Bind(Len(w) + 1,
         LAMBDA i :
    Bind(gamma1(w[i - 2]),
         LAMBDA g1 :
    Bind(gamma0(w[i - 15]),
         LAMBDA g0 :
         Append(w, WAdd(WAdd(WAdd(g1, w[i - 7]), g0), w[i - 16])))))

\* The iterations of the extension loop that bring w to n words, in order.
RECURSIVE ExtendTo(_, _)
ExtendTo(w, n) ==
    IF Len(w) >= n THEN w
    ELSE IF Len(w) + 1 = n THEN ExtendWord(w)
    ELSE Bind(ExtendTo(w, (Len(w) + n) \div 2),
              LAMBDA w1 : ExtendTo(w1, n))

ExtendWords(w) == ExtendTo(w, 64)

\* One round of the compression function on s = <<a, b, c, d, e, f, g, hh>>.
Round(s, k, wi) ==
    Bind(sigma1(s[5]),
         LAMBDA s1e :
    Bind(ch(s[5], s[6], s[7]),
         LAMBDA chefg :
    Bind(WAdd(WAdd(WAdd(WAdd(s[8], s1e), chefg), k), wi),
         LAMBDA t1 :
    Bind(sigma0(s[1]),
         LAMBDA s0a :
    Bind(WAdd(s0a, maj(s[1], s[2], s[3])),
         LAMBDA t2 :
         <<WAdd(t1, t2), s[1], s[2], s[3], WAdd(s[4], t1), s[5], s[6], s[7]>>)))))

\* Rounds lo..hi (1-based) of the compression loop, applied to s.
RECURSIVE Rounds(_, _, _, _)
Rounds(s, w, lo, hi) ==
    IF lo = hi THEN Round(s, SHA256_K[lo], w[lo])
    ELSE Bind(Rounds(s, w, lo, (lo + hi) \div 2),
              LAMBDA s1 : Rounds(s1, w, ((lo + hi) \div 2) + 1, hi))

\* The body of the chunk loop: h[j] += working variable j.
ProcessChunk(h, padded, chunk) ==
    Bind(ChunkWords(padded, chunk),
         LAMBDA w0 :
    Bind(ExtendWords(w0),
         LAMBDA w :
    Bind(Rounds(h, w, 1, 64),
         LAMBDA s : Vector(8, LAMBDA j : WAdd(h[j], s[j])))))

RECURSIVE ProcessChunks(_, _, _)
ProcessChunks(h, padded, chunk) ==
    IF chunk >= Len(padded) THEN h
    ELSE Bind(ProcessChunk(h, padded, chunk),
              LAMBDA h1 : ProcessChunks(h1, padded, chunk + 64))

\* Byte k (0..3, 0 = most significant) of a uint32_t.
WordByte(x, k) ==
    IF k = 0 THEN x[1] \div 256
    ELSE IF k = 1 THEN x[1] % 256
    ELSE IF k = 2 THEN x[2] \div 256
    ELSE x[2] % 256

\* Hash_DRBG::sha256 (and HMAC_DRBG::sha256, which forwards to it).
sha256(data) ==
    Bind(data,
         LAMBDA message :
    Bind(sha256_pad(message),
         LAMBDA padded :
    Bind(ProcessChunks(SHA256_H0, padded, 0),
         LAMBDA h :
             Vector(32, LAMBDA j : WordByte(h[((j - 1) \div 4) + 1], (j - 1) % 4)))))

----------------------------------------------------------------------------
(* std::vector helpers.                                                    *)

Min(a, b) == IF a < b THEN a ELSE b

\* size_t is 64 bits wide.  The values the calls work with lie within 2^30 of
\* a multiple of 2^64, and each is held as its signed residue modulo 2^64:
\* 0, 1, 2, ... are themselves and SIZE_MAX = 2^64 - 1 is -1.  Sums of
\* residues are sums modulo 2^64.
SIZE_MAX == -1

\* a is at most b as size_t values.
SizeLeq(a, b) == IF (a < 0) = (b < 0) THEN a <= b ELSE b < 0

\* ceil(a / b) as the code writes it: (a + b - 1) / b in size_t, the sum
\* taken modulo 2^64.  A sum that stays in the upper range has a quotient no
\* vector of the model holds, and no call of the model asks for it.
CeilDiv(a, b) ==
    Bind(a + b - 1,
         LAMBDA sum : IF sum >= 0 THEN sum \div b
                      ELSE CHOOSE quotient \in {} : TRUE)

\* v.resize(n): truncates, or appends value-initialized (zero) bytes.
resize(v, n) ==
    IF Len(v) >= n THEN SubSeq(v, 1, n)
    ELSE v \o Vector(n - Len(v), LAMBDA i : 0)

\* A loop that steps the last byte only and drops its carry.
IncrementFrom_no_carry(v, from) ==
    IF from < 1 THEN v ELSE [v EXCEPT ![from] = (v[from] + 1) % 256]

\* The loop "for (j = from - 1; j >= 0; --j) if (++v[j] != 0) break;" on a
\* byte vector; from is the number of bytes still to visit.
RECURSIVE IncrementFrom(_, _)
IncrementFrom(v, from) ==
    IF from < 1 THEN v
    ELSE IF (v[from] + 1) % 256 # 0 THEN [v EXCEPT ![from] = (v[from] + 1) % 256]
    ELSE IncrementFrom([v EXCEPT ![from] = 0], from - 1)

----------------------------------------------------------------------------
(* CTR_DRBG: the simplified SPN block cipher and the counter-mode DRBG.    *)

BLOCK_SIZE == 16
KEY_SIZE == 32

\* sizeof(reseed_counter), a uint64_t.
SIZEOF_RESEED_COUNTER == 8

SBOX == <<
    \h63, \h7c, \h77, \h7b, \hf2, \h6b, \h6f, \hc5, \h30, \h01, \h67, \h2b, \hfe, \hd7, \hab, \h76,
    \hca, \h82, \hc9, \h7d, \hfa, \h59, \h47, \hf0, \had, \hd4, \ha2, \haf, \h9c, \ha4, \h72, \hc0,
    \hb7, \hfd, \h93, \h26, \h36, \h3f, \hf7, \hcc, \h34, \ha5, \he5, \hf1, \h71, \hd8, \h31, \h15,
    \h04, \hc7, \h23, \hc3, \h18, \h96, \h05, \h9a, \h07, \h12, \h80, \he2, \heb, \h27, \hb2, \h75,
    \h09, \h83, \h2c, \h1a, \h1b, \h6e, \h5a, \ha0, \h52, \h3b, \hd6, \hb3, \h29, \he3, \h2f, \h84,
    \h53, \hd1, \h00, \hed, \h20, \hfc, \hb1, \h5b, \h6a, \hcb, \hbe, \h39, \h4a, \h4c, \h58, \hcf,
    \hd0, \hef, \haa, \hfb, \h43, \h4d, \h33, \h85, \h45, \hf9, \h02, \h7f, \h50, \h3c, \h9f, \ha8,
    \h51, \ha3, \h40, \h8f, \h92, \h9d, \h38, \hf5, \hbc, \hb6, \hda, \h21, \h10, \hff, \hf3, \hd2,
    \hcd, \h0c, \h13, \hec, \h5f, \h97, \h44, \h17, \hc4, \ha7, \h7e, \h3d, \h64, \h5d, \h19, \h73,
    \h60, \h81, \h4f, \hdc, \h22, \h2a, \h90, \h88, \h46, \hee, \hb8, \h14, \hde, \h5e, \h0b, \hdb,
    \he0, \h32, \h3a, \h0a, \h49, \h06, \h24, \h5c, \hc2, \hd3, \hac, \h62, \h91, \h95, \he4, \h79,
    \he7, \hc8, \h37, \h6d, \h8d, \hd5, \h4e, \ha9, \h6c, \h56, \hf4, \hea, \h65, \h7a, \hae, \h08,
    \hba, \h78, \h25, \h2e, \h1c, \ha6, \hb4, \hc6, \he8, \hdd, \h74, \h1f, \h4b, \hbd, \h8b, \h8a,
    \h70, \h3e, \hb5, \h66, \h48, \h03, \hf6, \h0e, \h61, \h35, \h57, \hb9, \h86, \hc1, \h1d, \h9e,
    \he1, \hf8, \h98, \h11, \h69, \hd9, \h8e, \h94, \h9b, \h1e, \h87, \he9, \hce, \h55, \h28, \hdf,
    \h8c, \ha1, \h89, \h0d, \hbf, \he6, \h42, \h68, \h41, \h99, \h2d, \h0f, \hb0, \h54, \hbb, \h16
>>

\* state[i] ^= key[(round * BLOCK_SIZE + i) % KEY_SIZE]
AddRoundKey(state, key, round) ==
    Vector(BLOCK_SIZE, LAMBDA i :
        Xor8(state[i], key[((round * BLOCK_SIZE + (i - 1)) % KEY_SIZE) + 1]))

\* state[i] = SBOX[state[i]]
SubBytes(state) == Vector(BLOCK_SIZE, LAMBDA i : SBOX[state[i] + 1])

\* temp = state; state[i] = temp[(i + (i / 4)) % BLOCK_SIZE]
ShiftRows(temp) ==
    Vector(BLOCK_SIZE, LAMBDA i : temp[(((i - 1) + ((i - 1) \div 4)) % BLOCK_SIZE) + 1])

\* x ^= t ^ ((x ^ y) << 1), stored back into a uint8_t.
MixByte(x, y, t) == Xor8(x, Xor8(t, (2 * Xor8(x, y)) % 256))

\* A column whose last byte is mixed with the first byte as already updated.
MixColumn_updated_first(state, c) ==
    Bind(Xor8(Xor8(state[c], state[c + 1]), Xor8(state[c + 2], state[c + 3])),
         LAMBDA t :
    Bind([state EXCEPT ![c] = MixByte(state[c], state[c + 1], t)] \o <<>>,
         LAMBDA s1 :
    Bind([s1 EXCEPT ![c + 1] = MixByte(s1[c + 1], s1[c + 2], t)] \o <<>>,
         LAMBDA s2 :
    Bind([s2 EXCEPT ![c + 2] = MixByte(s2[c + 2], s2[c + 3], t)] \o <<>>,
         LAMBDA s3 :
         [s3 EXCEPT ![c + 3] = MixByte(s3[c + 3], s3[c], t)] \o <<>>))))

\* The four assignments of the MixColumns body for the column whose first
\* byte is state[c] (1-based), in the order the code performs them.
MixColumn(state, c) ==
    Bind(Xor8(Xor8(state[c], state[c + 1]), Xor8(state[c + 2], state[c + 3])),
         LAMBDA t :
    Bind(state[c],
         LAMBDA u :
    Bind([state EXCEPT ![c] = MixByte(state[c], state[c + 1], t)] \o <<>>,
         LAMBDA s1 :
    Bind([s1 EXCEPT ![c + 1] = MixByte(s1[c + 1], s1[c + 2], t)] \o <<>>,
         LAMBDA s2 :
    Bind([s2 EXCEPT ![c + 2] = MixByte(s2[c + 2], s2[c + 3], t)] \o <<>>,
         LAMBDA s3 :
         [s3 EXCEPT ![c + 3] = MixByte(s3[c + 3], u, t)] \o <<>>)))))

\* for (i = 0; i < BLOCK_SIZE; i += 4) { ... }
MixColumns(state) ==
    Bind(MixColumn(state, 1),
         LAMBDA s1 :
    Bind(MixColumn(s1, 5),
         LAMBDA s2 :
    Bind(MixColumn(s2, 9),
         LAMBDA s3 : MixColumn(s3, 13))))

\* One round (0..9) of the cipher; MixColumns is skipped in the last round.
CipherRound(state, key, round) ==
    Bind(AddRoundKey(state, key, round),
         LAMBDA s1 :
    Bind(SubBytes(s1),
         LAMBDA s2 :
    Bind(ShiftRows(s2),
         LAMBDA s3 : IF round < 9 THEN MixColumns(s3) ELSE s3)))

RECURSIVE CipherRounds(_, _, _)
CipherRounds(state, key, round) ==
    IF round >= 10 THEN state
    ELSE Bind(CipherRound(state, key, round),
              LAMBDA s : CipherRounds(s, key, round + 1))

\* CTR_DRBG::encrypt_block, with the member key as a parameter.
encrypt_block(key, block) == CipherRounds(block, key, 0)

\* CTR_DRBG::increment_counter.
increment_counter(counter) == IncrementFrom(counter, BLOCK_SIZE)

\* The loop "while (out.size() < size) { increment_counter();
\* out.insert(end, encrypt_block(counter)); }": <<counter, out>> at its exit.
RECURSIVE CounterBlocks(_, _, _, _)
CounterBlocks(key, counter, out, size) ==
    IF Len(out) >= size THEN <<counter, out>>
    ELSE Bind(increment_counter(counter),
              LAMBDA c :
         Bind(out \o encrypt_block(key, c),
              LAMBDA out1 : CounterBlocks(key, c, out1, size)))

\* An XOR that repeats provided_data over the whole of temp.
XorPrefix_repeating(temp, provided_data) ==
    Vector(Len(temp), LAMBDA i :
        IF Len(provided_data) = 0 THEN temp[i]
        ELSE Xor8(temp[i], provided_data[((i - 1) % Len(provided_data)) + 1]))

\* temp[i] ^= provided_data[i] for i < min(temp.size(), provided_data.size())
XorPrefix(temp, provided_data) ==
    Vector(Len(temp), LAMBDA i :
        IF i <= Min(Len(temp), Len(provided_data))
        THEN Xor8(temp[i], provided_data[i]) ELSE temp[i])

\* An update that folds the provided data past the 48th byte back onto temp.
CTR_DRBG_update_folding(g, provided_data) ==
    Bind(CounterBlocks(g.key, g.counter, <<>>, KEY_SIZE + BLOCK_SIZE),
         LAMBDA r :
    Bind(XorPrefix(XorPrefix(r[2], provided_data),
                   SubSeq(provided_data, Min(Len(r[2]), Len(provided_data)) + 1,
                          Len(provided_data))),
         LAMBDA temp :
         [key |-> SubSeq(temp, 1, KEY_SIZE),
          counter |-> SubSeq(temp, KEY_SIZE + 1, KEY_SIZE + BLOCK_SIZE),
          reseed_counter |-> g.reseed_counter]))

\* CTR_DRBG::update on the object g = [key, counter, reseed_counter].
CTR_DRBG_update(g, provided_data) ==
    Bind(CounterBlocks(g.key, g.counter, <<>>, KEY_SIZE + BLOCK_SIZE),
         LAMBDA r :
    Bind(XorPrefix(r[2], provided_data),
         LAMBDA temp :
         [key |-> SubSeq(temp, 1, KEY_SIZE),
          counter |-> SubSeq(temp, KEY_SIZE + 1, KEY_SIZE + BLOCK_SIZE),
          reseed_counter |-> g.reseed_counter]))

\* CTR_DRBG::CTR_DRBG(seed).
CTR_DRBG_new(seed) ==
    Bind([key |-> Vector(KEY_SIZE, LAMBDA i : 0),
          counter |-> Vector(BLOCK_SIZE, LAMBDA i : 0),
          reseed_counter |-> 1],
         LAMBDA g : CTR_DRBG_update(g, seed))

\* A generate whose closing update takes reseed_counter as provided data.
CTR_DRBG_generate_mixing_counter(g, num_bits) ==
    Bind(CounterBlocks(g.key, g.counter, <<>>, CeilDiv(num_bits, 8)),
         LAMBDA r :
    Bind([g EXCEPT !.counter = r[1]],
         LAMBDA g0 :
    Bind(CTR_DRBG_update(g0, <<g.reseed_counter % 256>>),
         LAMBDA g1 :
         [obj |-> [g1 EXCEPT !.reseed_counter = g1.reseed_counter + 1],
          ret |-> resize(r[2], CeilDiv(num_bits, 8))])))

\* CTR_DRBG::generate: the object after the call and the returned bytes.
CTR_DRBG_generate(g, num_bits) ==
    Bind(CounterBlocks(g.key, g.counter, <<>>, CeilDiv(num_bits, 8)),
         LAMBDA r :
    Bind([g EXCEPT !.counter = r[1]],
         LAMBDA g0 :
    Bind(CTR_DRBG_update(g0, <<>>),
         LAMBDA g1 :
         [obj |-> [g1 EXCEPT !.reseed_counter = g1.reseed_counter + 1],
          ret |-> resize(r[2], CeilDiv(num_bits, 8))])))

\* CTR_DRBG::reseed.
CTR_DRBG_reseed(g, seed) ==
    [CTR_DRBG_update(g, seed) EXCEPT !.reseed_counter = 1]

\* CTR_DRBG::getStateSize.
CTR_DRBG_getStateSize(g) == KEY_SIZE + BLOCK_SIZE + SIZEOF_RESEED_COUNTER

----------------------------------------------------------------------------
(* Hash_DRBG.                                                              *)

SEED_LENGTH == 55
HASH_OUTPUT == 32

\* The body of hash_df's loop for the counter byte ctr: the digest of
\* ctr || no_of_bits as 32-bit big-endian || input.
hash_df_block(input, no_of_bits, ctr) ==
    sha256(<<ctr, ByteOf64(no_of_bits, 3), ByteOf64(no_of_bits, 2),
             ByteOf64(no_of_bits, 1), ByteOf64(no_of_bits, 0)>> \o input)

\* A derivation loop whose counter byte starts at 0.
RECURSIVE hash_df_loop_from_zero(_, _, _, _, _)
hash_df_loop_from_zero(input, no_of_bits, temp, i, len) ==
    IF i >= len THEN temp
    ELSE Bind(temp \o hash_df_block(input, no_of_bits, i % 256),
              LAMBDA t : hash_df_loop_from_zero(input, no_of_bits, t, i + 1, len))

\* for (i = 0; i < len; ++i) temp.insert(end, sha256(counter++ || ...));
\* counter is a uint8_t that starts at 1.
RECURSIVE hash_df_loop(_, _, _, _, _)
hash_df_loop(input, no_of_bits, temp, i, len) ==
    IF i >= len THEN temp
    ELSE Bind(temp \o hash_df_block(input, no_of_bits, (1 + i) % 256),
              LAMBDA t : hash_df_loop(input, no_of_bits, t, i + 1, len))

\* hash_df without its final temp.resize(no_of_bytes).
hash_df_unsized(input, no_of_bits) ==
    Bind(input,
         LAMBDA data :
         hash_df_loop(data, no_of_bits, <<>>, 0,
                      CeilDiv(CeilDiv(no_of_bits, 8), HASH_OUTPUT)))

\* Hash_DRBG::hash_df.
hash_df(input, no_of_bits) ==
    Bind(input,
         LAMBDA data :
    Bind(hash_df_loop(data, no_of_bits, <<>>, 0,
                      CeilDiv(CeilDiv(no_of_bits, 8), HASH_OUTPUT)),
         LAMBDA temp : resize(temp, CeilDiv(no_of_bits, 8))))

\* An iteration of add_to_V's loop that loses the carry out of a byte that
\* has no operand byte to add (i >= min_len).
add_to_V_step_short_carry(st, value, i) ==
    Bind(Len(st[1]) - i,
         LAMBDA idx :
         IF i < Min(Len(st[1]), Len(value))
         THEN Bind(st[1][idx] + st[2] + value[Len(value) - i],
                   LAMBDA sum :
                   <<[st[1] EXCEPT ![idx] = sum % 256] \o <<>>, sum \div 256>>)
         ELSE Bind(st[1][idx] + st[2],
                   LAMBDA sum :
                   <<[st[1] EXCEPT ![idx] = sum % 256] \o <<>>, 0>>))

\* One iteration (i, 0-based) of add_to_V's loop on st = <<V, carry>>.
add_to_V_step(st, value, i) ==
    Bind(Len(st[1]) - i,
         LAMBDA idx :
    Bind(st[1][idx] + st[2]
           + (IF i < Min(Len(st[1]), Len(value)) THEN value[Len(value) - i] ELSE 0),
         LAMBDA sum :
         <<[st[1] EXCEPT ![idx] = sum % 256] \o <<>>, sum \div 256>>))

\* Iterations lo..hi of add_to_V's loop, in order.
RECURSIVE add_to_V_loop(_, _, _, _)
add_to_V_loop(st, value, lo, hi) ==
    IF lo > hi THEN st
    ELSE IF lo = hi THEN add_to_V_step(st, value, lo)
    ELSE Bind(add_to_V_loop(st, value, lo, (lo + hi) \div 2),
              LAMBDA s1 : add_to_V_loop(s1, value, ((lo + hi) \div 2) + 1, hi))

\* Hash_DRBG::add_to_V: the member V after the call.
add_to_V(V, value) ==
    Bind(<<V, 0>>,
         LAMBDA st :
    Bind(value,
         LAMBDA operand : add_to_V_loop(st, operand, 0, Len(st[1]) - 1)[1]))

\* The loop of hashgen: <<data, W>> after iterations i..m-1.
RECURSIVE hashgen_loop(_, _, _, _)
hashgen_loop(data, W, i, m) ==
    IF i >= m THEN <<data, W>>
    ELSE Bind(W \o sha256(data),
              LAMBDA W1 :
         Bind(IncrementFrom(data, Len(data)),
              LAMBDA data1 : hashgen_loop(data1, W1, i + 1, m)))

\* Hash_DRBG::hashgen, reading the member V.
hashgen(V, requested_bits) ==
    Bind(hashgen_loop(V, <<>>, 0, CeilDiv(requested_bits, HASH_OUTPUT * 8))[2],
         LAMBDA W : resize(W, CeilDiv(requested_bits, 8)))

\* reseed_counter as 8 bytes, big-endian.
rc_bytes(reseed_counter) == Vector(8, LAMBDA j : ByteOf64(reseed_counter, 8 - j))

\* Hash_DRBG::Hash_DRBG(seed).
Hash_DRBG_new(seed) ==
    Bind(hash_df(seed, SEED_LENGTH * 8),
         LAMBDA V :
         [V |-> V, C |-> hash_df(<<0>> \o V, SEED_LENGTH * 8), reseed_counter |-> 1])

\* A generate that adds reseed_counter to V after incrementing it.
Hash_DRBG_generate_late_counter(g, num_bits) ==
    Bind(hashgen(g.V, num_bits),
         LAMBDA returned_bits :
    Bind(sha256(<<3>> \o g.V),
         LAMBDA H :
    Bind(add_to_V(g.V, H),
         LAMBDA V1 :
    Bind(add_to_V(V1, g.C),
         LAMBDA V2 :
         [obj |-> [V |-> add_to_V(V2, rc_bytes(g.reseed_counter + 1)),
                   C |-> g.C,
                   reseed_counter |-> g.reseed_counter + 1],
          ret |-> returned_bits]))))

\* A generate that advances V from where hashgen's walk over it ended.
Hash_DRBG_generate_advance_by_output(g, num_bits) ==
    Bind(hashgen_loop(g.V, <<>>, 0, CeilDiv(num_bits, HASH_OUTPUT * 8)),
         LAMBDA walk :
    Bind(sha256(<<3>> \o walk[1]),
         LAMBDA H :
    Bind(add_to_V(walk[1], H),
         LAMBDA V1 :
    Bind(add_to_V(V1, g.C),
         LAMBDA V2 :
         [obj |-> [V |-> add_to_V(V2, rc_bytes(g.reseed_counter)),
                   C |-> g.C,
                   reseed_counter |-> g.reseed_counter + 1],
          ret |-> resize(walk[2], CeilDiv(num_bits, 8))]))))

\* Hash_DRBG::generate on g = [V, C, reseed_counter].
Hash_DRBG_generate(g, num_bits) ==
    Bind(hashgen(g.V, num_bits),
         LAMBDA returned_bits :
    Bind(sha256(<<3>> \o g.V),
         LAMBDA H :
    Bind(add_to_V(g.V, H),
         LAMBDA V1 :
    Bind(add_to_V(V1, g.C),
         LAMBDA V2 :
         [obj |-> [V |-> add_to_V(V2, rc_bytes(g.reseed_counter)),
                   C |-> g.C,
                   reseed_counter |-> g.reseed_counter + 1],
          ret |-> returned_bits]))))

\* A reseed that derives the new V and keeps the constant of the old one.
Hash_DRBG_reseed_stale_C(g, seed) ==
    Bind(hash_df((<<1>> \o g.V) \o seed, SEED_LENGTH * 8),
         LAMBDA V : [V |-> V, C |-> g.C, reseed_counter |-> 1])

\* Hash_DRBG::reseed.
Hash_DRBG_reseed(g, seed) ==
    Bind(hash_df((<<1>> \o g.V) \o seed, SEED_LENGTH * 8),
         LAMBDA V :
         [V |-> V, C |-> hash_df(<<0>> \o V, SEED_LENGTH * 8), reseed_counter |-> 1])

\* Hash_DRBG::getStateSize.
Hash_DRBG_getStateSize(g) == Len(g.V) + Len(g.C) + SIZEOF_RESEED_COUNTER

----------------------------------------------------------------------------
(* HMAC_DRBG.                                                              *)

\* The block size of HMAC-SHA256 (a local constant of hmac_sha256).
HMAC_BLOCK_SIZE == 64

\* A key pad that repeats the key up to the block size.
k_pad_repeating(key) ==
    Vector(HMAC_BLOCK_SIZE, LAMBDA i : key[((i - 1) % Len(key)) + 1])

\* k_pad: the key followed by zeros up to the block size.
k_pad(key) == Vector(HMAC_BLOCK_SIZE, LAMBDA i : IF i <= Len(key) THEN key[i] ELSE 0)

\* HMAC_DRBG::hmac_sha256.
hmac_sha256(key, data) ==
    Bind(k_pad(key),
         LAMBDA kp :
    Bind(sha256(Vector(HMAC_BLOCK_SIZE, LAMBDA i : Xor8(kp[i], 54)) \o data),
         LAMBDA inner_hash :
         sha256(Vector(HMAC_BLOCK_SIZE, LAMBDA i : Xor8(kp[i], 92)) \o inner_hash)))

\* The first round of update: K = HMAC(K, V || 0x00 || data); V = HMAC(K, V).
\* tag is the separator byte; the second round uses 0x01.
HMAC_DRBG_update_round(g, tag, provided_data) ==
    Bind(hmac_sha256(g.K, (g.V \o <<tag>>) \o provided_data),
         LAMBDA K :
         [K |-> K, V |-> hmac_sha256(K, g.V), reseed_counter |-> g.reseed_counter])

\* An update that runs its second round whatever the data.
HMAC_DRBG_update_two_rounds(g, provided_data) ==
    Bind(HMAC_DRBG_update_round(g, 0, provided_data),
         LAMBDA g1 : HMAC_DRBG_update_round(g1, 1, provided_data))

\* HMAC_DRBG::update on g = [K, V, reseed_counter].
HMAC_DRBG_update(g, provided_data) ==
    Bind(HMAC_DRBG_update_round(g, 0, provided_data),
         LAMBDA g1 :
         IF provided_data # <<>>
         THEN HMAC_DRBG_update_round(g1, 1, provided_data)
         ELSE g1)

\* HMAC_DRBG::HMAC_DRBG(seed).
HMAC_DRBG_new(seed) ==
    Bind([K |-> Vector(HASH_OUTPUT, LAMBDA i : 0),
          V |-> Vector(HASH_OUTPUT, LAMBDA i : 1),
          reseed_counter |-> 1],
         LAMBDA g : HMAC_DRBG_update(g, seed))

\* The loop "while (result.size() < num_bytes) { V = HMAC(K, V);
\* result.insert(end, V); }": <<V, result>> at its exit.
RECURSIVE hmac_blocks(_, _, _, _)
hmac_blocks(K, V, result, num_bytes) ==
    IF Len(result) >= num_bytes THEN <<V, result>>
    ELSE Bind(hmac_sha256(K, V),
              LAMBDA V1 :
         Bind(result \o V1,
              LAMBDA result1 : hmac_blocks(K, V1, result1, num_bytes)))

\* HMAC_DRBG::generate.
HMAC_DRBG_generate(g, num_bits) ==
    Bind(hmac_blocks(g.K, g.V, <<>>, CeilDiv(num_bits, 8)),
         LAMBDA r :
    Bind([g EXCEPT !.V = r[1]],
         LAMBDA g0 :
    Bind(HMAC_DRBG_update(g0, <<>>),
         LAMBDA g1 :
         [obj |-> [g1 EXCEPT !.reseed_counter = g1.reseed_counter + 1],
          ret |-> resize(r[2], CeilDiv(num_bits, 8))])))

\* HMAC_DRBG::reseed.
HMAC_DRBG_reseed(g, seed) ==
    [HMAC_DRBG_update(g, seed) EXCEPT !.reseed_counter = 1]

\* HMAC_DRBG::getStateSize: sizeof(K) + sizeof(V) + sizeof(reseed_counter).
HMAC_DRBG_getStateSize(g) == HASH_OUTPUT + HASH_OUTPUT + SIZEOF_RESEED_COUNTER

----------------------------------------------------------------------------
(* The callers' view: DRBG objects reached through the abstract interface  *)
(* (constructor, generate, reseed, getStateSize), each owning its members. *)

\* Bounds of the model.
MaxCalls == 2
MaxLag == 1

Kinds == {"CTR", "Hash", "HMAC"}

\* Two objects of the same variant.  The caller makes up to MaxCalls calls
\* (after the constructor) on object 1 and repeats them, call by call, on
\* object 2, which is at most MaxLag calls behind.
Instances == {1, 2}

\* A seed of len bytes: fill, fill + 1, ...
Seed(len, fill) == Vector(len, LAMBDA i : (fill + i - 1) % 256)

\* The inputs the caller draws from: the empty seed and a short one; requests
\* for no bits, for a partial second byte, for a partial byte beyond two
\* cipher blocks and beyond one digest, and for the most bits a size_t names.
SeedSet == {<<>>, Seed(3, 1)}
NumBitsSet == {0, 9, 260, SIZE_MAX}

\* No object yet (before the constructor has run).
NoObject == [absent |-> TRUE]

\* No pure function applied (every specification but the ones that apply one).
NoCall == [fn |-> "none"]
NoResult == [done |-> FALSE]

VARIABLES
    kind,     \* the variant both objects are instances of
    gen,      \* gen[i]: the members of object i
    script,   \* the calls made on object 1 so far, the constructor first
    ret,      \* ret[i]: what each call on object i returned (<<>> for void)
    call,     \* a private member function applied on its own, with its inputs
    result    \* and what it computed

vars == <<kind, gen, script, ret, call, result>>

\* A generate that returns at once when no byte is requested.
DRBG_generate_skip_empty(k, g, num_bits) ==
    IF CeilDiv(num_bits, 8) = 0 THEN [obj |-> g, ret |-> <<>>]
    ELSE CASE k = "CTR" -> CTR_DRBG_generate(g, num_bits)
           [] k = "Hash" -> Hash_DRBG_generate(g, num_bits)
           [] k = "HMAC" -> HMAC_DRBG_generate(g, num_bits)

\* A reseed that leaves reseed_counter as it was.
DRBG_reseed_keep_counter(k, g, seed) ==
    CASE k = "CTR" ->
           [CTR_DRBG_reseed(g, seed) EXCEPT !.reseed_counter = g.reseed_counter]
      [] k = "Hash" ->
           [Hash_DRBG_reseed(g, seed) EXCEPT !.reseed_counter = g.reseed_counter]
      [] k = "HMAC" ->
           [HMAC_DRBG_reseed(g, seed) EXCEPT !.reseed_counter = g.reseed_counter]

\* Virtual dispatch through the DRBG interface.
DRBG_new(k, seed) ==
    CASE k = "CTR" -> CTR_DRBG_new(seed)
      [] k = "Hash" -> Hash_DRBG_new(seed)
      [] k = "HMAC" -> HMAC_DRBG_new(seed)

DRBG_generate(k, g, num_bits) ==
    CASE k = "CTR" -> CTR_DRBG_generate(g, num_bits)
      [] k = "Hash" -> Hash_DRBG_generate(g, num_bits)
      [] k = "HMAC" -> HMAC_DRBG_generate(g, num_bits)

DRBG_reseed(k, g, seed) ==
    CASE k = "CTR" -> CTR_DRBG_reseed(g, seed)
      [] k = "Hash" -> Hash_DRBG_reseed(g, seed)
      [] k = "HMAC" -> HMAC_DRBG_reseed(g, seed)

DRBG_getStateSize(k, g) ==
    CASE k = "CTR" -> CTR_DRBG_getStateSize(g)
      [] k = "Hash" -> Hash_DRBG_getStateSize(g)
      [] k = "HMAC" -> HMAC_DRBG_getStateSize(g)

\* The calls of the interface, as the script records them.
NewCall(seed) == [op |-> "new", seed |-> seed]
GenerateCall(num_bits) == [op |-> "generate", num_bits |-> num_bits]
ReseedCall(seed) == [op |-> "reseed", seed |-> seed]

\* The number of calls (the constructor included) object i has completed.
Done(i) == Len(ret[i])

Constructed(i) == Done(i) >= 1

\* Whether the caller makes call c on object i now: any call on object 1
\* within the bounds, on object 2 the next call of the script.
MayCall(i, c) ==
    IF i = 1
    THEN /\ Len(script) < MaxCalls + 1
         /\ Len(script) - Done(2) < MaxLag
    ELSE /\ Done(i) < Len(script)
         /\ script[Done(i) + 1] = c

\* Members declared static: one copy of them for all the objects alive.
CompletesSharedMembers(i, c, obj, r) ==
    /\ gen' = [j \in Instances |->
                 IF j = i \/ Len(ret[j]) >= 1 THEN obj ELSE gen[j]]
    /\ ret' = [ret EXCEPT ![i] = Append(@, r)]
    /\ script' = IF i = 1 THEN Append(script, c) ELSE script
    /\ UNCHANGED <<kind, call, result>>

\* reseed_counter alone declared static.
CompletesSharedCounter(i, c, obj, r) ==
    /\ gen' = [j \in Instances |->
                 IF j = i THEN obj
                 ELSE IF Len(ret[j]) >= 1
                 THEN [gen[j] EXCEPT !.reseed_counter = obj.reseed_counter]
                 ELSE gen[j]]
    /\ ret' = [ret EXCEPT ![i] = Append(@, r)]
    /\ script' = IF i = 1 THEN Append(script, c) ELSE script
    /\ UNCHANGED <<kind, call, result>>

\* Call c on object i completes: the object's own members become obj and the
\* caller receives r.
Completes(i, c, obj, r) ==
    /\ gen' = [gen EXCEPT ![i] = obj]
    /\ ret' = [ret EXCEPT ![i] = Append(@, r)]
    /\ script' = IF i = 1 THEN Append(script, c) ELSE script
    /\ UNCHANGED <<kind, call, result>>

Init ==
    /\ kind \in Kinds
    /\ gen = [i \in Instances |-> NoObject]
    /\ script = <<>>
    /\ ret = [i \in Instances |-> <<>>]
    /\ call = NoCall
    /\ result = NoResult

\* Object i is constructed from seed.
ConstructWith(i, seed) ==
    /\ ~Constructed(i)
    /\ MayCall(i, NewCall(seed))
    /\ \E obj \in {DRBG_new(kind, seed)} :
           Completes(i, NewCall(seed), obj, <<>>)

\* A generate that refuses once reseed_counter has passed a reseed interval
\* of one request.
GenerateWithinInterval(i, num_bits) ==
    /\ Constructed(i)
    /\ gen[i].reseed_counter <= 1
    /\ MayCall(i, GenerateCall(num_bits))
    /\ \E r \in {DRBG_generate(kind, gen[i], num_bits)} :
           Completes(i, GenerateCall(num_bits), r.obj, r.ret)

\* generate(num_bits) on object i.  The code has no precondition and no
\* early return: the only guards are the caller's.
GenerateWith(i, num_bits) ==
    /\ Constructed(i)
    /\ MayCall(i, GenerateCall(num_bits))
    /\ \E r \in {DRBG_generate(kind, gen[i], num_bits)} :
           Completes(i, GenerateCall(num_bits), r.obj, r.ret)

\* reseed(seed) on object i.
ReseedWith(i, seed) ==
    /\ Constructed(i)
    /\ MayCall(i, ReseedCall(seed))
    /\ \E obj \in {DRBG_reseed(kind, gen[i], seed)} :
           Completes(i, ReseedCall(seed), obj, <<>>)

Construct(i) == \E seed \in SeedSet : ConstructWith(i, seed)

Generate(i) == \E num_bits \in NumBitsSet : GenerateWith(i, num_bits)

Reseed(i) == \E seed \in SeedSet : ReseedWith(i, seed)

Next == \E i \in Instances : Construct(i) \/ Generate(i) \/ Reseed(i)

Spec == Init /\ [][Next]_vars

----------------------------------------------------------------------------
(* Hash_DRBG::add_to_V applied on its own to a 55-byte V.                  *)

Filled(len, b) == Vector(len, LAMBDA i : b)

\* Values of V: all zero, all ones, rising bytes, bytes that wrap, and
\* runs of 0xFF below, above and across the operand's length.
AddAccumulators ==
    { Filled(SEED_LENGTH, 0),
      Filled(SEED_LENGTH, 255),
      Seed(SEED_LENGTH, 1),
      Seed(SEED_LENGTH, 230),
      Filled(SEED_LENGTH - 1, 0) \o <<255>>,
      Filled(SEED_LENGTH - 1, 255) \o <<0>>,
      <<0>> \o Filled(SEED_LENGTH - 1, 255),
      <<255>> \o Filled(SEED_LENGTH - 1, 0) }

\* Operands of every kind of length from 0 to 55 bytes: empty, one byte, the
\* 8 bytes of a counter, the 32 bytes of a digest, one byte short of V, and
\* as long as V.
AddOperands ==
    { <<>>,
      <<1>>,
      <<255>>,
      <<1, 0>>,
      Filled(7, 0) \o <<1>>,
      Filled(8, 255),
      Filled(HASH_OUTPUT, 255),
      Seed(HASH_OUTPUT, 100),
      Filled(SEED_LENGTH - 1, 255),
      Filled(SEED_LENGTH, 255),
      Seed(SEED_LENGTH, 7),
      <<128>> \o Filled(SEED_LENGTH - 1, 0) }

InitAdd ==
    /\ kind = "Hash"
    /\ gen = [i \in Instances |-> NoObject]
    /\ script = <<>>
    /\ ret = [i \in Instances |-> <<>>]
    /\ call \in {[fn |-> "add_to_V", V |-> v, value |-> x] :
                     v \in AddAccumulators, x \in AddOperands}
    /\ result = NoResult

ApplyAddToV ==
    /\ call.fn = "add_to_V"
    /\ ~result.done
    /\ result' = [done |-> TRUE, V |-> add_to_V(call.V, call.value)]
    /\ UNCHANGED <<kind, gen, script, ret, call>>

SpecAdd == InitAdd /\ [][ApplyAddToV]_vars

----------------------------------------------------------------------------
(* Properties of the calls through the interface.                          *)

\* v is a prefix of w.
IsPrefix(v, w) == Len(v) <= Len(w) /\ SubSeq(w, 1, Len(v)) = v

\* n is ceil(num_bits / 8), the least number of whole bytes that hold
\* num_bits bits.  A request in the upper range of size_t needs 2^61 bytes or
\* a little less, which no n of the model is.
IsCeilBytes(n, num_bits) ==
    /\ num_bits >= 0
    /\ 8 * n >= num_bits
    /\ (n = 0 \/ 8 * (n - 1) < num_bits)

\* ceil(num_bits / 8) for a request in the lower range of size_t.
CeilBytes(num_bits) == CHOOSE n \in 0..num_bits : IsCeilBytes(n, num_bits)

GenerateLength ==
    \A i \in Instances : \A k \in 1..Done(i) :
        script[k].op = "generate" =>
            IsCeilBytes(Len(ret[i][k]), script[k].num_bits)

\* The position in the script of the last construction or reseed of object i.
LastReset(i) ==
    CHOOSE k \in 1..Done(i) :
        /\ script[k].op # "generate"
        /\ \A m \in (k + 1)..Done(i) : script[m].op = "generate"

\* C3: reseed_counter is 1 plus the number of generate calls completed since
\* the object's construction or its last reseed.
ReseedCount ==
    \A i \in Instances :
        Constructed(i) => gen[i].reseed_counter = 1 + (Done(i) - LastReset(i))

\* Two generate calls in a row since construction.
ReseedCountWitness ==
    /\ Done(2) = 3
    /\ script[2].op = "generate"
    /\ script[3].op = "generate"
    /\ gen[2].reseed_counter = 3

\* C4: with an 8-byte size_t, getStateSize() is 56 for CTR_DRBG, 118 for
\* Hash_DRBG and 72 for HMAC_DRBG at every point of an object's life, and
\* Hash_DRBG's V and C are 55 bytes long each.
StateSize ==
    \A i \in Instances :
        Constructed(i) =>
            /\ kind = "CTR" => DRBG_getStateSize(kind, gen[i]) = 56
            /\ kind = "Hash" => DRBG_getStateSize(kind, gen[i]) = 118
            /\ kind = "HMAC" => DRBG_getStateSize(kind, gen[i]) = 72
            /\ kind = "Hash" => Len(gen[i].V) = 55 /\ Len(gen[i].C) = 55

\* A Hash_DRBG that has generated and then been reseeded.
StateSizeWitness ==
    /\ kind = "Hash"
    /\ Done(2) = 3
    /\ script[2].op = "generate"
    /\ script[3].op = "reseed"
    /\ DRBG_getStateSize(kind, gen[2]) = 118

----------------------------------------------------------------------------
(* Arbitrary-precision arithmetic on byte strings, through residues.       *)

\* Thirty primes below 46000: their product exceeds 2^464, and the product
\* of two residues fits a 32-bit integer.
Moduli ==
    << 45989, 45979, 45971, 45959, 45953, 45949, 45943, 45893, 45887, 45869,
       45863, 45853, 45841, 45833, 45827, 45823, 45821, 45817, 45779, 45767,
       45763, 45757, 45751, 45737, 45707, 45697, 45691, 45677, 45673, 45667 >>

\* b^e modulo p, for b < p.
RECURSIVE PowMod(_, _, _)
PowMod(b, e, p) ==
    IF e = 0 THEN 1
    ELSE Bind(PowMod(b, e \div 2, p),
              LAMBDA h : IF e % 2 = 0 THEN (h * h) % p
                         ELSE (((h * h) % p) * b) % p)

\* The big-endian integer v[lo..hi] modulo p.
RECURSIVE ValueMod(_, _, _, _)
ValueMod(v, lo, hi, p) ==
    IF lo > hi THEN 0
    ELSE IF lo = hi THEN v[lo] % p
    ELSE Bind(ValueMod(v, lo, (lo + hi) \div 2, p),
              LAMBDA left :
              (left * PowMod(256, hi - ((lo + hi) \div 2), p)
                 + ValueMod(v, ((lo + hi) \div 2) + 1, hi, p)) % p)

\* The big-endian integer v modulo each of the moduli.
Residues(v) == Vector(Len(Moduli), LAMBDA j : ValueMod(v, 1, Len(v), Moduli[j]))

\* The sum of the j-th residues of the first n of rs.
RECURSIVE SumAt(_, _, _)
SumAt(rs, j, n) == IF n = 0 THEN 0 ELSE rs[n][j] + SumAt(rs, j, n - 1)

\* out, a string of bits / 8 bytes, is the big-endian integer
\* (terms[1] + ... + terms[n] + small) mod 2^bits, for n <= 3 terms below
\* 2^bits and small below 2^30.  The sum less out is k * 2^bits for a k in
\* 0..n exactly when it is so modulo every modulus: both sides differ by less
\* than 2^(bits + 3), which for bits = 440 is less than the moduli's product.
IsSumMod(out, terms, small, bits) ==
    /\ Len(out) * 8 = bits
    /\ \A j \in 1..Len(out) : out[j] \in 0..255
    /\ Bind(Residues(out),
            LAMBDA ro :
       Bind(terms,
            LAMBDA ts :
       Bind(Vector(Len(ts), LAMBDA t : Residues(ts[t])),
            LAMBDA rs :
            \E k \in 0..Len(ts) :
                \A j \in 1..Len(Moduli) :
                    (SumAt(rs, j, Len(ts)) + small) % Moduli[j]
                      = (ro[j] + k * PowMod(2, bits, Moduli[j])) % Moduli[j])))

----------------------------------------------------------------------------
(* Properties of single calls.                                             *)

\* The step completes a call on object i.
Acts(i) == Len(ret'[i]) = Done(i) + 1

\* The call the step completes on object i, and what it returns.
ActCall(i) == script'[Done(i) + 1]
ActRet(i) == ret'[i][Done(i) + 1]

\* C5: generate(0) returns the empty vector and still advances the state
\* fully: reseed_counter grows by one and the members are replaced as by the
\* update step of any other request (CTR: update(empty) replaces key and
\* counter; HMAC: update(empty) replaces K and V; Hash: V becomes
\* V + H + C + reseed_counter mod 2^440, C stays).
EmptyRequestAdvances ==
    [][\A i \in Instances :
         (Acts(i) /\ ActCall(i) = GenerateCall(0)) =>
            /\ ActRet(i) = <<>>
            /\ gen'[i].reseed_counter = gen[i].reseed_counter + 1
            /\ kind = "CTR" =>
                 \E u \in {CTR_DRBG_update(gen[i], <<>>)} :
                    /\ gen'[i].key = u.key /\ gen'[i].counter = u.counter
                    /\ <<u.key, u.counter>> # <<gen[i].key, gen[i].counter>>
            /\ kind = "HMAC" =>
                 \E u \in {HMAC_DRBG_update(gen[i], <<>>)} :
                    /\ gen'[i].K = u.K /\ gen'[i].V = u.V
                    /\ <<u.K, u.V>> # <<gen[i].K, gen[i].V>>
            /\ kind = "Hash" =>
                 /\ gen'[i].C = gen[i].C
                 /\ gen'[i].V # gen[i].V
                 /\ IsSumMod(gen'[i].V,
                             <<gen[i].V, sha256(<<3>> \o gen[i].V), gen[i].C>>,
                             gen[i].reseed_counter, 8 * SEED_LENGTH)
      ]_vars

\* A zero-bit request has been served, after another request.
EmptyRequestWitness ==
    /\ Done(2) = 3
    /\ script[2] = GenerateCall(9)
    /\ script[3] = GenerateCall(0)
    /\ ret[2][3] = <<>>
    /\ gen[2].reseed_counter = 3

\* The members of an object of variant k are well formed.
IsBytes(v, n) == Len(v) = n /\ \A j \in 1..n : v[j] \in 0..255

WellFormed(k, g) ==
    /\ g.reseed_counter \in 1..(MaxCalls + 1)
    /\ k = "CTR" => IsBytes(g.key, KEY_SIZE) /\ IsBytes(g.counter, BLOCK_SIZE)
    /\ k = "Hash" => IsBytes(g.V, SEED_LENGTH) /\ IsBytes(g.C, SEED_LENGTH)
    /\ k = "HMAC" => IsBytes(g.K, HASH_OUTPUT) /\ IsBytes(g.V, HASH_OUTPUT)

Isolation ==
    [][/\ \E i \in Instances : Acts(i)
       /\ \A i \in Instances :
            Acts(i) => \A j \in Instances \ {i} :
                          gen'[j] = gen[j] /\ ret'[j] = ret[j]
      ]_vars

\* Object 1 has served a request while object 2, constructed and used,
\* was alive.
IsolationWitness ==
    /\ Done(1) = 3
    /\ Done(2) = 2
    /\ script[2].op = "generate"
    /\ script[3].op = "generate"
    /\ gen[1].reseed_counter = 3
    /\ gen[2].reseed_counter = 2

\* C8: a Hash_DRBG generate replaces V by
\* (V + H + C + reseed_counter) mod 2^440, where H = sha256(0x03 || V) read
\* as a big-endian integer, V is the value at entry and reseed_counter the
\* value before its increment; C is unchanged.
HashGenerateAdvancesV ==
    [][\A i \in Instances :
         (kind = "Hash" /\ Acts(i) /\ ActCall(i).op = "generate") =>
            /\ gen'[i].C = gen[i].C
            /\ IsSumMod(gen'[i].V,
                        <<gen[i].V, sha256(<<3>> \o gen[i].V), gen[i].C>>,
                        gen[i].reseed_counter, 8 * SEED_LENGTH)
      ]_vars

\* A Hash_DRBG has served two requests: the second added a counter of 2.
HashGenerateWitness ==
    /\ kind = "Hash"
    /\ Done(2) = 3
    /\ script[2] = GenerateCall(260)
    /\ script[3] = GenerateCall(9)
    /\ gen[2].reseed_counter = 3

\* C9: add_to_V replaces the 55-byte V by the big-endian integer
\* (V + value) mod 2^440, for an operand of any length from 0 to 55 bytes,
\* aligned at the least significant byte and zero-extended on the left.
AddToVIsAddition ==
    result.done =>
        IsSumMod(result.V, <<call.V, call.value>>, 0, 8 * SEED_LENGTH)

\* The sum wraps around 2^440: all ones plus one is zero.
AddToVWitness ==
    /\ result.done
    /\ call.V = Filled(SEED_LENGTH, 255)
    /\ call.value = <<1>>
    /\ result.V = Filled(SEED_LENGTH, 0)

\* The requests a request for n bits is compared with: the whole bytes of
\* its own length, and every longer request.
LargerRequests(n) ==
    (IF n >= 0 THEN {8 * CeilBytes(n)} ELSE {})
        \cup {m \in NumBitsSet : SizeLeq(n, m)}

\* C10: generate does not mask the final byte: what generate(n) returns is
\* a prefix of what generate(m) returns from the same state, for every
\* m >= n; with m = 8 * ceil(n / 8) it is the same bytes.
PrefixOfLarger ==
    [][\A i \in Instances :
         (Acts(i) /\ ActCall(i).op = "generate") =>
            \A m \in LargerRequests(ActCall(i).num_bits) :
                \E r \in {DRBG_generate(kind, gen[i], m).ret} :
                    /\ IsPrefix(ActRet(i), r)
                    /\ (/\ ActCall(i).num_bits >= 0
                        /\ m = 8 * CeilBytes(ActCall(i).num_bits)) => ActRet(i) = r
      ]_vars

----------------------------------------------------------------------------
(* Hash_DRBG::sha256 applied on its own.                                   *)

\* Messages of no byte, a few bytes, a digest, the longest that pads into one
\* block (55), the shortest that needs a second (56), a whole block and more.
ShaLengths == {0, 1, 3, 32, 55, 56, 63, 64, 65, 119, 120}
ShaFills == {0, 1, 97, 128, 200, 255}
ShaMessages == {Seed(len, fill) : len \in ShaLengths, fill \in ShaFills}

InitSha ==
    /\ kind = "Hash"
    /\ gen = [i \in Instances |-> NoObject]
    /\ script = <<>>
    /\ ret = [i \in Instances |-> <<>>]
    /\ call \in {[fn |-> "sha256", data |-> m] : m \in ShaMessages}
    /\ result = NoResult

ApplySha256 ==
    /\ call.fn = "sha256"
    /\ ~result.done
    /\ result' = [done |-> TRUE, digest |-> sha256(call.data)]
    /\ UNCHANGED <<kind, gen, script, ret, call>>

SpecSha == InitSha /\ [][ApplySha256]_vars

\* e3b0c442 98fc1c14 9afbf4c8 996fb924 27ae41e4 649b934c a495991b 7852b855
EmptyDigest ==
    <<227, 176, 196, 66, 152, 252, 28, 20, 154, 251, 244, 200, 153, 111, 185, 36, 39, 174, 65, 228, 100, 155, 147, 76, 164, 149, 153, 27, 120, 82, 184, 85>>

\* C11: Hash_DRBG::sha256 applied to the empty byte sequence returns the 32
\* bytes e3b0c442...7852b855.
ShaOfEmpty ==
    (result.done /\ call.fn = "sha256" /\ call.data = <<>>)
        => result.digest = EmptyDigest

\* sha256 has been applied to the empty sequence and returned 32 bytes.
ShaOfEmptyWitness ==
    /\ result.done
    /\ call.fn = "sha256"
    /\ call.data = <<>>
    /\ Len(result.digest) = 32

----------------------------------------------------------------------------
(* CTR_DRBG's private member functions applied on their own.               *)

CipherKeys == {Filled(KEY_SIZE, 0), Seed(KEY_SIZE, 1)}

\* Blocks of equal bytes and blocks whose 16 bytes all differ.
CipherBlocks ==
    {Filled(BLOCK_SIZE, 0), Filled(BLOCK_SIZE, 255), Seed(BLOCK_SIZE, 0), Seed(BLOCK_SIZE, 100)}

\* Two blocks to encrypt under one key: a block and the same block with one
\* byte changed, and a counter and the counter after it.
BlockPairs ==
    {<<b, [b EXCEPT ![j] = (@ + 1) % 256]>> : b \in CipherBlocks, j \in 1..BLOCK_SIZE}
        \cup {<<b, increment_counter(b)>> : b \in CipherBlocks}

\* Counters that end in a run of n bytes 0xFF, for every n.
Counters ==
    {Filled(BLOCK_SIZE - n, a) \o Filled(n, 255) : n \in 0..BLOCK_SIZE, a \in {0, 7, 254}}

\* Provided data shorter than, as long as and longer than key and counter.
ProvidedData ==
    {Seed(len, 17) : len \in {0, 3, KEY_SIZE, KEY_SIZE + BLOCK_SIZE - 1,
                              KEY_SIZE + BLOCK_SIZE, KEY_SIZE + BLOCK_SIZE + 1, 60}}

\* The members of a CTR_DRBG at a call of update.
CipherObjects ==
    {[key |-> k, counter |-> c, reseed_counter |-> n] :
        k \in CipherKeys, c \in {Filled(BLOCK_SIZE, 255), Seed(BLOCK_SIZE, 100)}, n \in {1, 5}}

\* A call names the member function, the members it reads and the arguments
\* of each application in turn; the result collects what each returned.
InitCipher ==
    /\ kind = "CTR"
    /\ gen = [i \in Instances |-> NoObject]
    /\ script = <<>>
    /\ ret = [i \in Instances |-> <<>>]
    /\ call \in {[fn |-> "ShiftRows", args |-> <<s>>] : s \in CipherBlocks}
          \cup {[fn |-> "encrypt_block", key |-> k, args |-> p] :
                    k \in CipherKeys, p \in BlockPairs}
          \cup {[fn |-> "increment_counter", args |-> <<c>>] : c \in Counters}
          \cup {[fn |-> "update", g |-> g, args |-> <<d>>] :
                    g \in CipherObjects, d \in ProvidedData}
    /\ result = [done |-> FALSE, out |-> <<>>]

\* The application that is next, and the result once it has returned r.
NextArg == call.args[Len(result.out) + 1]
Returned(r) ==
    /\ result' = [done |-> Len(result.out) + 1 = Len(call.args),
                  out |-> Append(result.out, r)]
    /\ UNCHANGED <<kind, gen, script, ret, call>>

ApplyShiftRows ==
    /\ call.fn = "ShiftRows"
    /\ ~result.done
    /\ \E r \in {ShiftRows(NextArg)} : Returned(r)

ApplyEncryptBlock ==
    /\ call.fn = "encrypt_block"
    /\ ~result.done
    /\ \E r \in {encrypt_block(call.key, NextArg)} : Returned(r)

ApplyIncrementCounter ==
    /\ call.fn = "increment_counter"
    /\ ~result.done
    /\ \E r \in {increment_counter(NextArg)} : Returned(r)

ApplyUpdate ==
    /\ call.fn = "update"
    /\ ~result.done
    /\ \E r \in {CTR_DRBG_update(call.g, NextArg)} : Returned(r)

NextCipher ==
    \/ ApplyShiftRows
    \/ ApplyEncryptBlock
    \/ ApplyIncrementCounter
    \/ ApplyUpdate

SpecCipher == InitCipher /\ [][NextCipher]_vars

\* C12: under one key, encrypt_block maps two different blocks (two
\* different counters among them) to two different blocks.
EncryptInjective ==
    (/\ call.fn = "encrypt_block"
     /\ result.done
     /\ call.args[1] # call.args[2])
        => result.out[1] # result.out[2]

\* w holds every byte of v as often as v does.
IsPermutationOf(w, v) ==
    /\ Len(w) = Len(v)
    /\ \A b \in 0..255 :
          Cardinality({j \in 1..Len(w) : w[j] = b})
              = Cardinality({j \in 1..Len(v) : v[j] = b})

\* C15: step (3) of a round permutes the 16 positions of the state: the
\* state after it holds each byte of the state before it exactly as often,
\* none dropped and none duplicated.
ShiftRowsPermutes ==
    (call.fn = "ShiftRows" /\ result.done)
        => IsPermutationOf(result.out[1], call.args[1])

\* The 48 bytes update works on: the counter stepped once, twice and three
\* times, each encrypted under key.
ThreeBlocks(key, counter) ==
    Bind(increment_counter(counter),
         LAMBDA c1 :
    Bind(increment_counter(c1),
         LAMBDA c2 :
    Bind(increment_counter(c2),
         LAMBDA c3 :
         encrypt_block(key, c1) \o encrypt_block(key, c2) \o encrypt_block(key, c3))))

\* Byte i (1..48) of temp after the XOR with data: the first
\* min(48, len(data)) bytes are XORed, the later ones are as they were.
XoredByte(temp, data, i) ==
    IF i <= Len(data) /\ i <= 48 THEN Xor8(temp[i], data[i]) ELSE temp[i]

\* C16: CTR_DRBG::update(providedData) steps the counter and encrypts it 3
\* times under the key held before the call, XORs the first
\* min(48, len(providedData)) of the 48 bytes with providedData, and makes
\* bytes 0..31 the key and bytes 32..47 the counter; reseed_counter is as
\* before.
UpdateThreeBlocks ==
    (call.fn = "update" /\ result.done) =>
        \E temp \in {ThreeBlocks(call.g.key, call.g.counter)} :
            /\ Len(temp) = 48
            /\ Len(result.out[1].key) = 32
            /\ Len(result.out[1].counter) = 16
            /\ \A i \in 1..32 :
                  result.out[1].key[i] = XoredByte(temp, call.args[1], i)
            /\ \A i \in 1..16 :
                  result.out[1].counter[i] = XoredByte(temp, call.args[1], 32 + i)
            /\ result.out[1].reseed_counter = call.g.reseed_counter

\* update has run with 3 bytes of data on a counter that wraps, at
\* reseed_counter 5, and replaced the key.
UpdateWitness ==
    /\ call.fn = "update"
    /\ result.done
    /\ call.args[1] = Seed(3, 17)
    /\ call.g.counter = Filled(BLOCK_SIZE, 255)
    /\ call.g.reseed_counter = 5
    /\ result.out[1].key # call.g.key

\* C18: increment_counter adds 1 to the counter read as a 16-byte big-endian
\* integer, modulo 2^128: the bytes that were 0xFF at the end wrap to 0, the
\* byte before them goes up by one and the bytes before that stay.
IncrementIsPlusOne ==
    (call.fn = "increment_counter" /\ result.done) =>
        /\ IsSumMod(result.out[1], <<call.args[1]>>, 1, 128)
        /\ \E n \in 0..BLOCK_SIZE :
              /\ \A j \in (BLOCK_SIZE - n + 1)..BLOCK_SIZE :
                    call.args[1][j] = 255 /\ result.out[1][j] = 0
              /\ n < BLOCK_SIZE =>
                    /\ call.args[1][BLOCK_SIZE - n] # 255
                    /\ result.out[1][BLOCK_SIZE - n] = call.args[1][BLOCK_SIZE - n] + 1
                    /\ \A j \in 1..(BLOCK_SIZE - n - 1) :
                          result.out[1][j] = call.args[1][j]

\* The counter of 16 bytes 0xFF has become 16 bytes 0x00.
IncrementWitness ==
    /\ call.fn = "increment_counter"
    /\ result.done
    /\ call.args[1] = Filled(BLOCK_SIZE, 255)
    /\ result.out[1] = Filled(BLOCK_SIZE, 0)

----------------------------------------------------------------------------
(* HMAC_DRBG's private member functions applied on their own.              *)

\* Keys: all zero, equal to the inner and to the outer pad byte, all ones,
\* and rising bytes.
MacKeys ==
    {Filled(HASH_OUTPUT, 0), Filled(HASH_OUTPUT, 54), Filled(HASH_OUTPUT, 92),
     Filled(HASH_OUTPUT, 255), Seed(HASH_OUTPUT, 1)}

\* Data: empty, V alone, V with a separator, and lengths about the padding
\* boundary of the inner hash (64 + 55 bytes fill two blocks exactly).
MacData == {Seed(len, 3) : len \in {0, 1, 32, 33, 55, 56, 64}}

\* The members of an HMAC_DRBG at a call of update.
MacObjects ==
    {[K |-> k, V |-> v, reseed_counter |-> n] :
        k \in {Filled(HASH_OUTPUT, 0), Seed(HASH_OUTPUT, 1)},
        v \in {Filled(HASH_OUTPUT, 1), Seed(HASH_OUTPUT, 77)},
        n \in {1, 5}}

MacProvidedData == {<<>>, <<0>>, Seed(3, 1), Seed(40, 5)}

InitMac ==
    /\ kind = "HMAC"
    /\ gen = [i \in Instances |-> NoObject]
    /\ script = <<>>
    /\ ret = [i \in Instances |-> <<>>]
    /\ call \in {[fn |-> "hmac_sha256", g |-> g, key |-> k, data |-> d] :
                    g \in {[K |-> Filled(HASH_OUTPUT, 0), V |-> Filled(HASH_OUTPUT, 1),
                            reseed_counter |-> 1]},
                    k \in MacKeys, d \in MacData}
          \cup {[fn |-> "update", g |-> g, provided_data |-> d] :
                    g \in MacObjects, d \in MacProvidedData}
    /\ result = NoResult

\* hmac_sha256 is a static member function: it has no object to write to.
ApplyHmacSha256 ==
    /\ call.fn = "hmac_sha256"
    /\ ~result.done
    /\ \E r \in {hmac_sha256(call.key, call.data)} :
          result' = [done |-> TRUE, mac |-> r, g |-> call.g]
    /\ UNCHANGED <<kind, gen, script, ret, call>>

ApplyHmacUpdate ==
    /\ call.fn = "update"
    /\ ~result.done
    /\ \E r \in {HMAC_DRBG_update(call.g, call.provided_data)} :
          result' = [done |-> TRUE, g |-> r]
    /\ UNCHANGED <<kind, gen, script, ret, call>>

NextMac ==
    \/ ApplyHmacSha256
    \/ ApplyHmacUpdate

SpecMac == InitMac /\ [][NextMac]_vars

\* The 32-byte key followed by 32 zero bytes, every byte XORed with pad.
KeyPad(key, pad) ==
    Vector(64, LAMBDA i : IF i <= 32 THEN Xor8(key[i], pad) ELSE pad)

\* C13: hmac_sha256(key, data) is sha256(opad || sha256(ipad || data)) with
\* ipad and opad the key zero-padded to 64 bytes and XORed with 0x36 and
\* 0x5c, for every key and data, empty data included; K and V are as before.
HmacIsNested ==
    (call.fn = "hmac_sha256" /\ result.done) =>
        /\ result.mac = sha256(KeyPad(call.key, 92) \o sha256(KeyPad(call.key, 54) \o call.data))
        /\ result.g = call.g

\* The mac of empty data under the rising key has been computed.
HmacWitness ==
    /\ call.fn = "hmac_sha256"
    /\ result.done
    /\ call.key = Seed(HASH_OUTPUT, 1)
    /\ call.data = <<>>
    /\ Len(result.mac) = HASH_OUTPUT

\* mac(K, V || tag || data) and then mac of V under that new key: one round
\* of update from key K and value V, as <<K, V>>.
MacRound(K, V, tag, data) ==
    Bind(hmac_sha256(K, V \o <<tag>> \o data),
         LAMBDA K1 : <<K1, hmac_sha256(K1, V)>>)

\* C19: HMAC_DRBG::update(providedData) does K = mac(K, V || 0x00 || data);
\* V = mac(K, V), and then K = mac(K, V || 0x01 || data); V = mac(K, V) if
\* and only if the data is not empty, each mac under the K and V assigned
\* last; reseed_counter is as before.
HmacUpdateRounds ==
    (call.fn = "update" /\ result.done) =>
        \E first \in {MacRound(call.g.K, call.g.V, 0, call.provided_data)} :
        \E second \in {MacRound(first[1], first[2], 1, call.provided_data)} :
            /\ Len(call.provided_data) = 0 => <<result.g.K, result.g.V>> = first
            /\ Len(call.provided_data) > 0 => <<result.g.K, result.g.V>> = second
            /\ first # second
            /\ result.g.reseed_counter = call.g.reseed_counter

\* update has run on empty data and replaced K and V.
HmacUpdateWitness ==
    /\ call.fn = "update"
    /\ result.done
    /\ call.provided_data = <<>>
    /\ call.g.reseed_counter = 5
    /\ result.g.K # call.g.K
    /\ result.g.V # call.g.V

----------------------------------------------------------------------------
(* Benchmark::countBits, applied on its own and as Benchmark::run calls it. *)

\* a is less than b as size_t values.
SizeLess(a, b) == a # b /\ SizeLeq(a, b)

\* The inner loop "for (bit = 7; bit >= 0 && bits_counted < num_bits; --bit)"
\* from its position bit; st is [zeros, ones, bits_counted].
RECURSIVE CountByteBits(_, _, _, _)
CountByteBits(st, byte, bit, num_bits) ==
    IF bit < 0 \/ ~SizeLess(st.bits_counted, num_bits) THEN st
    ELSE Bind(IF Bit(byte, bit) = 1
              THEN [st EXCEPT !.ones = @ + 1, !.bits_counted = @ + 1]
              ELSE [st EXCEPT !.zeros = @ + 1, !.bits_counted = @ + 1],
              LAMBDA st1 : CountByteBits(st1, byte, bit - 1, num_bits))

\* The outer loop "for (byte_idx = 0; byte_idx < data.size() &&
\* bits_counted < num_bits; ++byte_idx)" from its position byte_idx.
RECURSIVE CountBytes(_, _, _, _)
CountBytes(st, data, byte_idx, num_bits) ==
    IF byte_idx >= Len(data) \/ ~SizeLess(st.bits_counted, num_bits) THEN st
    ELSE Bind(CountByteBits(st, data[byte_idx + 1], 7, num_bits),
              LAMBDA st1 : CountBytes(st1, data, byte_idx + 1, num_bits))

\* Benchmark::countBits: the pair (zeros, ones).
countBits(data, num_bits) ==
    Bind(CountBytes([zeros |-> 0, ones |-> 0, bits_counted |-> 0], data, 0, num_bits),
         LAMBDA st : <<st.zeros, st.ones>>)

\* Benchmark::run, of which the output and the counts are kept.
Benchmark_run(k, drbg, num_bits) ==
    Bind(DRBG_generate(k, drbg, num_bits),
         LAMBDA r :
    Bind(countBits(r.ret, num_bits),
         LAMBDA counts :
         [num_bits |-> num_bits, data |-> r.ret, output_size |-> Len(r.ret),
          count_zeros |-> counts[1], count_ones |-> counts[2]]))

CountData ==
    {<<>>, <<0>>, <<255>>, <<128>>, <<1>>, <<170, 85>>, <<15, 240, 129>>, Seed(5, 250)}
CountBitsSet == {0, 1, 7, 8, 9, 12, 16, 17, 40, 41, SIZE_MAX}

InitCount ==
    /\ kind \in Kinds
    /\ gen = [i \in Instances |-> NoObject]
    /\ script = <<>>
    /\ ret = [i \in Instances |-> <<>>]
    /\ call \in {[fn |-> "countBits", data |-> d, num_bits |-> n] :
                    d \in CountData, n \in CountBitsSet}
          \cup {[fn |-> "run", drbg |-> DRBG_new(kind, seed), num_bits |-> n] :
                    seed \in SeedSet, n \in NumBitsSet}
    /\ result = NoResult

ApplyCountBits ==
    /\ call.fn = "countBits"
    /\ ~result.done
    /\ \E r \in {countBits(call.data, call.num_bits)} :
          result' = [done |-> TRUE, zeros |-> r[1], ones |-> r[2]]
    /\ UNCHANGED <<kind, gen, script, ret, call>>

ApplyRun ==
    /\ call.fn = "run"
    /\ ~result.done
    /\ \E r \in {Benchmark_run(kind, call.drbg, call.num_bits)} :
          result' = [done |-> TRUE, run |-> r]
    /\ UNCHANGED <<kind, gen, script, ret, call>>

NextCount ==
    \/ ApplyCountBits
    \/ ApplyRun

SpecCount == InitCount /\ [][NextCount]_vars

\* min(num_bits, 8 * data.size()); a request in the upper range of size_t
\* exceeds the bits of any data.
BitsToCount(data, num_bits) ==
    IF num_bits < 0 THEN 8 * Len(data) ELSE Min(num_bits, 8 * Len(data))

\* The number of bits set among the first n bits of data, each byte read
\* from its most significant bit.
LeadingOnes(data, n) ==
    Cardinality({p \in 0..(n - 1) : Bit(data[(p \div 8) + 1], 7 - (p % 8)) = 1})

\* countBits(data, num_bits) counts the first min(num_bits, 8 * data.size())
\* bits of data, most significant bit of each byte first.
CountsLeadingBits ==
    (call.fn = "countBits" /\ result.done) =>
        \E n \in {BitsToCount(call.data, call.num_bits)} :
            /\ result.zeros + result.ones = n
            /\ result.ones = LeadingOnes(call.data, n)

\* Benchmark::run counts exactly the num_bits bits it asked generate for:
\* the leading bits of the output, the low-order bits of a partial last
\* byte left out.
RunCountsRequested ==
    (call.fn = "run" /\ result.done) =>
        /\ result.run.count_zeros + result.run.count_ones = call.num_bits
        /\ call.num_bits >= 0 =>
              result.run.count_ones = LeadingOnes(result.run.data, call.num_bits)

\* C14: countBits(data, num_bits) inspects the bits byte by byte, most
\* significant first, and returns (zeros, ones) with zeros + ones =
\* min(num_bits, 8 * data.size()); for data = generate(num_bits) exactly
\* num_bits bits are counted, the ones left out being the low-order bits
\* of a partial last byte.
CountBitsCounts == CountsLeadingBits /\ RunCountsRequested

----------------------------------------------------------------------------
(* The generate calls of CTR_DRBG and HMAC_DRBG, block by block.           *)

\* The counter after n steps of increment_counter.
RECURSIVE StepCounter(_, _)
StepCounter(counter, n) ==
    IF n = 0 THEN counter
    ELSE Bind(StepCounter(counter, n - 1), LAMBDA c : increment_counter(c))

\* encrypt_block_k(c + 1) || ... || encrypt_block_k(c + n).
RECURSIVE CounterStream(_, _, _)
CounterStream(key, counter, n) ==
    IF n = 0 THEN <<>>
    ELSE Bind(CounterStream(key, counter, n - 1),
              LAMBDA head : head \o encrypt_block(key, StepCounter(counter, n)))

\* A CTR_DRBG generate step of object i that returns num_bytes bytes: they
\* are the first bytes of the n blocks under the key and from the counter at
\* entry, n = ceil(num_bytes / 16); the members after are update(empty) of
\* the key at entry and the counter stepped n times, and reseed_counter is
\* one higher.
CtrGenerateReturns(i, num_bytes) ==
    \E n \in {(num_bytes + 15) \div 16} :
    \E stream \in {CounterStream(gen[i].key, gen[i].counter, n)} :
        /\ Len(stream) >= num_bytes
        /\ ActRet(i) = SubSeq(stream, 1, num_bytes)
        /\ gen'[i] =
              [CTR_DRBG_update([gen[i] EXCEPT !.counter = StepCounter(gen[i].counter, n)], <<>>)
                  EXCEPT !.reseed_counter = gen[i].reseed_counter + 1]
        /\ gen'[i].key # gen[i].key

\* C17: CTR_DRBG::generate(numBits), entered with key k and counter c,
\* returns encrypt_block_k(c+1) || ... || encrypt_block_k(c+n) for
\* n = ceil(ceil(numBits/8)/16), truncated to ceil(numBits/8) bytes; key and
\* counter are replaced by update(empty) after the blocks are produced,
\* reseed_counter is incremented, and the returned bytes are those made
\* under the key at entry.
CtrGenerateBlocks ==
    [][\A i \in Instances :
         (kind = "CTR" /\ Acts(i) /\ ActCall(i).op = "generate") =>
            /\ IsCeilBytes(Len(ActRet(i)), ActCall(i).num_bits)
            /\ CtrGenerateReturns(i, Len(ActRet(i)))
      ]_vars

\* V1 || ... || Vn with Vi = mac(K, V(i-1)) and V0 = V, and Vn, as
\* <<Vn, V1 || ... || Vn>>.
RECURSIVE MacStream(_, _, _)
MacStream(K, V, n) ==
    IF n = 0 THEN <<V, <<>>>>
    ELSE Bind(MacStream(K, V, n - 1),
              LAMBDA head :
         Bind(hmac_sha256(K, head[1]),
              LAMBDA Vn : <<Vn, head[2] \o Vn>>))

\* An HMAC_DRBG generate step of object i that returns num_bytes bytes: they
\* are the first bytes of V1 || ... || Vn under the K at entry,
\* n = ceil(num_bytes / 32); the members after are update(empty) of the K at
\* entry and Vn, and reseed_counter is one higher.
HmacGenerateReturns(i, num_bytes) ==
    \E n \in {(num_bytes + 31) \div 32} :
    \E stream \in {MacStream(gen[i].K, gen[i].V, n)} :
        /\ Len(stream[2]) >= num_bytes
        /\ ActRet(i) = SubSeq(stream[2], 1, num_bytes)
        /\ gen'[i] =
              [HMAC_DRBG_update([gen[i] EXCEPT !.V = stream[1]], <<>>)
                  EXCEPT !.reseed_counter = gen[i].reseed_counter + 1]
        /\ gen'[i].K # gen[i].K

\* C20: HMAC_DRBG::generate(numBits), entered with key K and value V0,
\* returns V1 || ... || Vn truncated to ceil(numBits/8) bytes, where
\* Vi = mac(K, V(i-1)) and n = ceil(ceil(numBits/8)/32); K is the same for
\* every Vi, and afterwards update(empty) replaces K and V, starting from
\* Vn, and reseed_counter is incremented.
HmacGenerateBlocks ==
    [][\A i \in Instances :
         (kind = "HMAC" /\ Acts(i) /\ ActCall(i).op = "generate") =>
            /\ IsCeilBytes(Len(ActRet(i)), ActCall(i).num_bits)
            /\ HmacGenerateReturns(i, Len(ActRet(i)))
      ]_vars

----------------------------------------------------------------------------
(* Member functions and loops applied on their own to the states and       *)
(* arguments their callers give them.                                      *)

\* Values of Hash_DRBG's V: a derived one, and two that wrap when stepped.
HashValues ==
    {Hash_DRBG_new(Seed(3, 1)).V, Filled(SEED_LENGTH, 255),
     Filled(SEED_LENGTH - 1, 255) \o <<254>>}

HashObjects ==
    {[V |-> v, C |-> Seed(SEED_LENGTH, 9), reseed_counter |-> n] :
        v \in HashValues, n \in {1, 2}}

\* Requests about the edges of one and two digests, and the largest.
HashgenBits == {0, 9, 256, 257, 260, 512, 513, SIZE_MAX}

\* Hash_DRBG::hashgen is a const walk over a copy of V: the members are as
\* they were.
ApplyHashgen ==
    /\ call.fn = "hashgen"
    /\ ~result.done
    /\ \E W \in {hashgen(call.g.V, call.requested_bits)} :
          result' = [done |-> TRUE, out |-> W, g |-> call.g]
    /\ UNCHANGED <<kind, gen, script, ret, call>>

\* Hash_DRBG::hash_df, with the number of digests its loop appended.
ApplyHashDf ==
    /\ call.fn = "hash_df"
    /\ ~result.done
    /\ \E temp \in {hash_df_loop(call.input, call.no_of_bits, <<>>, 0,
                        CeilDiv(CeilDiv(call.no_of_bits, 8), HASH_OUTPUT))} :
          result' = [done |-> TRUE,
                     out |-> hash_df(call.input, call.no_of_bits),
                     digests |-> Len(temp) \div HASH_OUTPUT]
    /\ UNCHANGED <<kind, gen, script, ret, call>>

\* The padding of sha256: padded is a copy, data is a const reference.
ApplyPad ==
    /\ call.fn = "sha256_pad"
    /\ ~result.done
    /\ \E padded \in {sha256_pad(call.data)} :
          result' = [done |-> TRUE, out |-> padded, data |-> call.data]
    /\ UNCHANGED <<kind, gen, script, ret, call>>

\* One round of encrypt_block's loop.
ApplyRound ==
    /\ call.fn = "round"
    /\ ~result.done
    /\ \E state \in {CipherRound(call.state, call.key, call.round)} :
          result' = [done |-> TRUE, out |-> state]
    /\ UNCHANGED <<kind, gen, script, ret, call>>


\* Objects as a constructor and as a first request leave them.
UnitObjects(k) ==
    {DRBG_new(k, <<>>), DRBG_generate(k, DRBG_new(k, Seed(3, 1)), 9).obj}

\* Requests about the edges of one and two blocks of every variant, and the
\* largest.
LoopBits == {0, 1, 8, 9, 128, 129, 256, 257, 260, SIZE_MAX}

\* The number of times the output loop of generate ran: the blocks it
\* appended to the result before the resize.
OutputIterations(k, g, num_bits) ==
    CASE k = "CTR" ->
           Len(CounterBlocks(g.key, g.counter, <<>>, CeilDiv(num_bits, 8))[2])
               \div BLOCK_SIZE
      [] k = "Hash" ->
           Len(hashgen_loop(g.V, <<>>, 0, CeilDiv(num_bits, HASH_OUTPUT * 8))[2])
               \div HASH_OUTPUT
      [] k = "HMAC" ->
           Len(hmac_blocks(g.K, g.V, <<>>, CeilDiv(num_bits, 8))[2])
               \div HASH_OUTPUT

\* generate(num_bits), run to its return, with the count of its output
\* loop's iterations.
ApplyLoops ==
    /\ call.fn = "loops"
    /\ ~result.done
    /\ \E r \in {DRBG_generate(kind, call.g, call.num_bits)} :
       \E n \in {OutputIterations(kind, call.g, call.num_bits)} :
          result' = [done |-> TRUE, iterations |-> n, obj |-> r.obj, ret |-> r.ret]
    /\ UNCHANGED <<kind, gen, script, ret, call>>

\* Seeds that agree on their first 48 bytes and differ after them, and one
\* that differs from the first in its 48th byte.
LongSeeds ==
    {Seed(KEY_SIZE + BLOCK_SIZE, 1),
     Seed(KEY_SIZE + BLOCK_SIZE, 1) \o <<9>>,
     Seed(KEY_SIZE + BLOCK_SIZE, 1) \o Seed(12, 200),
     Seed(KEY_SIZE + BLOCK_SIZE - 1, 1) \o <<0>>}

SeedPairs == {p \in LongSeeds \X LongSeeds : p[1] # p[2]}

\* The constructor (op = "new") or reseed on the object g, run once for each
\* seed of a pair, and a request made of each object that results.
ApplySeed ==
    /\ call.fn = "seed"
    /\ ~result.done
    /\ \E objs \in {Vector(2, LAMBDA j :
                       IF call.op = "new" THEN DRBG_new(kind, call.seeds[j])
                       ELSE DRBG_reseed(kind, call.g, call.seeds[j]))} :
          result' = [done |-> TRUE, objs |-> objs,
                     rets |-> Vector(2, LAMBDA j : DRBG_generate(kind, objs[j], 260).ret)]
    /\ UNCHANGED <<kind, gen, script, ret, call>>
InitUnit ==
    /\ kind \in Kinds
    /\ gen = [i \in Instances |-> NoObject]
    /\ script = <<>>
    /\ ret = [i \in Instances |-> <<>>]
    /\ call \in
          {[fn |-> "loops", g |-> g, num_bits |-> n] :
               g \in UnitObjects(kind), n \in LoopBits}
          \cup {[fn |-> "seed", op |-> "new", g |-> NoObject, seeds |-> p] : p \in SeedPairs}
          \cup {[fn |-> "seed", op |-> "reseed", g |-> g, seeds |-> p] :
               g \in UnitObjects(kind), p \in SeedPairs}
          \cup
          IF kind = "Hash"
          THEN {[fn |-> "hashgen", g |-> g, requested_bits |-> n] :
                    g \in HashObjects, n \in HashgenBits}
               \cup {[fn |-> "hash_df", input |-> d, no_of_bits |-> n] :
                    d \in {<<>>, Seed(3, 1), <<0>> \o Seed(SEED_LENGTH, 5)},
                    n \in {0, 8, 9, 256, 257, 8 * SEED_LENGTH, 512}}
               \cup {[fn |-> "sha256_pad", data |-> d] : d \in ShaMessages}
          ELSE IF kind = "CTR"
          THEN {[fn |-> "round", state |-> s, key |-> k, round |-> r] :
                    s \in CipherBlocks, k \in CipherKeys, r \in 0..9}
          ELSE {}
    /\ result = NoResult

NextUnit ==
    \/ ApplyHashgen
    \/ ApplyHashDf
    \/ ApplyPad
    \/ ApplyRound
    \/ ApplyLoops
    \/ ApplySeed

SpecUnit == InitUnit /\ [][NextUnit]_vars

\* sha256(V) || sha256(V + 1) || ... || sha256(V + n - 1), V + i the sum
\* modulo 2^440 as add_to_V computes it.
RECURSIVE HashStream(_, _)
HashStream(V, n) ==
    IF n = 0 THEN <<>>
    ELSE Bind(HashStream(V, n - 1),
              LAMBDA head : head \o sha256(add_to_V(V, <<n - 1>>)))

\* A hashgen call that returned its bytes from the stream of digests of V,
\* V + 1, ... and left the members alone.
HashgenReturns ==
    /\ result.g = call.g
    /\ result.out = SubSeq(HashStream(call.g.V, (Len(result.out) + 31) \div 32),
                           1, Len(result.out))

\* C21: Hash_DRBG::hashgen(requestedBits) leaves V, C and reseed_counter
\* unchanged and returns sha256(V) || sha256(V+1) || ... || sha256(V+m-1)
\* truncated to ceil(requestedBits/8) bytes, m = ceil(requestedBits/256),
\* V + i the big-endian sum modulo 2^440.
HashgenBlocks ==
    (call.fn = "hashgen" /\ result.done) =>
        /\ IsCeilBytes(Len(result.out), call.requested_bits)
        /\ HashgenReturns

\* n as 4 bytes, big-endian.
BE32(n) == <<(n \div 16777216) % 256, (n \div 65536) % 256, (n \div 256) % 256, n % 256>>

\* sha256(1 || BE32(bits) || input) || ... || sha256(n || BE32(bits) || input).
RECURSIVE DfStream(_, _, _)
DfStream(input, bits, n) ==
    IF n = 0 THEN <<>>
    ELSE Bind(DfStream(input, bits, n - 1),
              LAMBDA head : head \o sha256((<<n>> \o BE32(bits)) \o input))

\* C23: hash_df(input, numBits) returns the first ceil(numBits/8) bytes of
\* sha256(1 || BE32(numBits) || input) || sha256(2 || ...) || ..., from
\* exactly ceil(ceil(numBits/8)/32) digests; for 440 bits that is 2 digests
\* and 55 bytes.
HashDfBlocks ==
    (call.fn = "hash_df" /\ result.done) =>
        /\ IsCeilBytes(Len(result.out), call.no_of_bits)
        /\ result.digests = (Len(result.out) + 31) \div 32
        /\ result.out = SubSeq(DfStream(call.input, call.no_of_bits, result.digests),
                               1, Len(result.out))
        /\ call.no_of_bits = 440 => (result.digests = 2 /\ Len(result.out) = 55)

\* 440 bits have been derived from an input of 56 bytes.
HashDfWitness ==
    /\ call.fn = "hash_df"
    /\ result.done
    /\ call.no_of_bits = 440
    /\ Len(call.input) = 56
    /\ result.digests = 2

\* The big-endian integer the bytes lo..hi of v spell, for a value below 2^31.
RECURSIVE SmallValue(_, _, _)
SmallValue(v, lo, hi) ==
    IF lo > hi THEN 0 ELSE 256 * SmallValue(v, lo, hi - 1) + v[hi]

\* C24: the padded message of an input of L bytes is the input, 0x80, the
\* fewest zero bytes that bring the length to 56 modulo 64, and 8 * L as 8
\* bytes big-endian; its length is the least multiple of 64 that is at
\* least L + 9; the input is as it was.
PaddingShape ==
    (call.fn = "sha256_pad" /\ result.done) =>
        \E L \in {Len(call.data)} :
        \E total \in {Len(result.out)} :
            /\ result.data = call.data
            /\ total % 64 = 0
            /\ total >= L + 9
            /\ total - 64 < L + 9
            /\ SubSeq(result.out, 1, L) = call.data
            /\ result.out[L + 1] = 128
            /\ \A j \in (L + 2)..(total - 8) : result.out[j] = 0
            /\ \A j \in (total - 7)..(total - 4) : result.out[j] = 0
            /\ SmallValue(result.out, total - 3, total) = 8 * L

\* An input of 55 bytes has been padded into one block, with no zero byte.
PaddingWitness ==
    /\ call.fn = "sha256_pad"
    /\ result.done
    /\ Len(call.data) = 55
    /\ Len(result.out) = 64

\* Byte j (0..3) of the column of state that starts at (1-based) c, after the
\* mixing step computed from the column's values before it.
MixedByte(state, c, j) ==
    Xor8(Xor8(state[c + j],
              Xor8(Xor8(state[c], state[c + 1]), Xor8(state[c + 2], state[c + 3]))),
         (2 * Xor8(state[c + j], state[c + ((j + 1) % 4)])) % 256)

\* C25: the mixing step runs in rounds 0..8 and not in round 9, and gives
\* each column (s0,s1,s2,s3), with t = s0^s1^s2^s3, the bytes
\* s_j ^ t ^ (((s_j ^ s_(j+1 mod 4)) << 1) mod 256) of its values before the
\* step: s3 is mixed with the old s0, and the bit shifted out is dropped.
MixingStep ==
    (call.fn = "round" /\ result.done) =>
        \E before \in {ShiftRows(SubBytes(AddRoundKey(call.state, call.key, call.round)))} :
            /\ call.round = 9 => result.out = before
            /\ call.round < 9 =>
                  \A c \in {1, 5, 9, 13} : \A j \in 0..3 :
                      result.out[c + j] = MixedByte(before, c, j)

\* Round 8 has mixed a state whose columns' first bytes changed.
MixingWitness ==
    /\ call.fn = "round"
    /\ result.done
    /\ call.round = 8
    /\ call.state = Seed(BLOCK_SIZE, 100)
    /\ result.out # ShiftRows(SubBytes(AddRoundKey(call.state, call.key, call.round)))


\* The output loop of a generate(num_bits) of variant k ran n times, n the
\* blocks that hold the bytes that hold num_bits bits.  A request in the
\* upper range of size_t needs 2^53 blocks or more, which no n of the model
\* is.
IsBlockCount(k, n, num_bits) ==
    /\ num_bits >= 0
    /\ k = "CTR" => n = (CeilBytes(num_bits) + BLOCK_SIZE - 1) \div BLOCK_SIZE
    /\ k = "Hash" => n = (num_bits + 8 * HASH_OUTPUT - 1) \div (8 * HASH_OUTPUT)
    /\ k = "HMAC" => n = (CeilBytes(num_bits) + HASH_OUTPUT - 1) \div HASH_OUTPUT

\* A generate call whose request does not wrap returned after the iterations
\* of its output loop that the request needs.
LoopsTerminate ==
    (call.fn = "loops" /\ result.done /\ call.num_bits >= 0) =>
        IsBlockCount(kind, result.iterations, call.num_bits)

\* C26: every generate(numBits) runs to completion, its output loop after
\* exactly ceil(ceil(numBits/8)/16) iterations in CTR_DRBG, ceil(numBits/256)
\* in Hash_DRBG and ceil(ceil(numBits/8)/32) in HMAC_DRBG, whatever the state
\* and whatever size_t value numBits is.
GenerateIterations ==
    (call.fn = "loops" /\ result.done) =>
        IsBlockCount(kind, result.iterations, call.num_bits)

\* Seeds v and w agree on their first n bytes (a seed shorter than n has
\* them all).
AgreeUpTo(v, w, n) ==
    /\ Min(Len(v), n) = Min(Len(w), n)
    /\ SubSeq(v, 1, Min(Len(v), n)) = SubSeq(w, 1, Min(Len(w), n))

\* C28: for construction and for reseed, CTR_DRBG gives two seeds that agree
\* on their first 48 bytes the same key, counter and reseed_counter from the
\* same prior state, hence the same bytes to the next request, and gives
\* seeds that differ within the first 48 bytes different ones; Hash_DRBG and
\* HMAC_DRBG give any two different seeds different members.
SeedTailIgnored ==
    (call.fn = "seed" /\ result.done) =>
        /\ (kind = "CTR" /\ AgreeUpTo(call.seeds[1], call.seeds[2], KEY_SIZE + BLOCK_SIZE)) =>
              /\ result.objs[1] = result.objs[2]
              /\ result.rets[1] = result.rets[2]
        /\ (kind = "CTR" /\ ~AgreeUpTo(call.seeds[1], call.seeds[2], KEY_SIZE + BLOCK_SIZE)) =>
              result.objs[1] # result.objs[2]
        /\ kind \in {"Hash", "HMAC"} =>
              /\ result.objs[1].V # result.objs[2].V
              /\ result.rets[1] # result.rets[2]

\* A CTR_DRBG has been reseeded from one state with a seed of 48 bytes and
\* with the same seed followed by 12 more, to the same members.
SeedTailWitness ==
    /\ kind = "CTR"
    /\ call.fn = "seed"
    /\ call.op = "reseed"
    /\ result.done
    /\ Len(call.seeds[1]) = KEY_SIZE + BLOCK_SIZE
    /\ Len(call.seeds[2]) = KEY_SIZE + BLOCK_SIZE + 12
    /\ result.objs[1] = result.objs[2]
    /\ Len(result.rets[1]) = 33
----------------------------------------------------------------------------
(* Hash_DRBG's constant, and what a generate call leaves behind.           *)

\* The first 55 bytes of sha256(1 || BE32(440) || 0x00 || V)
\* || sha256(2 || BE32(440) || 0x00 || V).
ConstantOf(V) == SubSeq(DfStream(<<0>> \o V, 8 * SEED_LENGTH, 2), 1, SEED_LENGTH)

\* C22: in Hash_DRBG, right after construction and after every reseed
\* C = hash_df(0x00 || V, 440) for the new V, which reseed derives from
\* 0x01 || old V || seed; every generate call leaves C unchanged.
HashConstant ==
    [][\A i \in Instances :
         (kind = "Hash" /\ Acts(i)) =>
            /\ ActCall(i).op \in {"new", "reseed"} =>
                  gen'[i].C = ConstantOf(gen'[i].V)
            /\ ActCall(i).op = "reseed" =>
                  gen'[i].V = SubSeq(DfStream((<<1>> \o gen[i].V) \o ActCall(i).seed,
                                              8 * SEED_LENGTH, 2), 1, SEED_LENGTH)
            /\ ActCall(i).op = "generate" => gen'[i].C = gen[i].C
      ]_vars

\* A Hash_DRBG has been reseeded to a new constant, which a generate call
\* then kept.
HashConstantWitness ==
    /\ kind = "Hash"
    /\ Done(1) = 3
    /\ script[2].op = "reseed"
    /\ script[3].op = "generate"
    /\ gen[1].C # Hash_DRBG_new(script[1].seed).C
    /\ gen[1].C = ConstantOf(Hash_DRBG_reseed(Hash_DRBG_new(script[1].seed), script[2].seed).V)

\* C29: the members Hash_DRBG::generate leaves behind do not depend on the
\* requested length: from the state of any generate step, a request of any
\* other length, 0 included, gives the same V, C and reseed_counter.
GenerateStateIgnoresLength ==
    [][\A i \in Instances :
         (kind = "Hash" /\ Acts(i) /\ ActCall(i).op = "generate") =>
            \A m \in NumBitsSet : Hash_DRBG_generate(gen[i], m).obj = gen'[i]
      ]_vars

\* A Hash_DRBG has served 9 and then 260 bits and has the members that two
\* requests of no bits give.
IgnoresLengthWitness ==
    /\ kind = "Hash"
    /\ Done(1) = 3
    /\ script[2] = GenerateCall(9)
    /\ script[3] = GenerateCall(260)
    /\ Len(ret[1][2]) = 2
    /\ Len(ret[1][3]) = 33
    /\ gen[1] = Hash_DRBG_generate(
                    Hash_DRBG_generate(Hash_DRBG_new(script[1].seed), 0).obj, 0).obj

\* The object g with another value of reseed_counter.
OtherCount(g) == [g EXCEPT !.reseed_counter = @ + 7]

\* The members a variant's outputs are computed from.
Working(k, g) == IF k = "CTR" THEN <<g.key, g.counter>> ELSE <<g.K, g.V>>

\* C30: CTR_DRBG and HMAC_DRBG never read reseed_counter: a generate or
\* reseed step taken from the same key and counter (K and V) with another
\* reseed_counter returns the same bytes and leaves the same key and counter
\* (K and V), the counters still differing after a generate; in Hash_DRBG a
\* generate step from another reseed_counter leaves another V.
CountNeverRead ==
    [][\A i \in Instances :
         /\ (Acts(i) /\ ActCall(i).op = "generate") =>
               \E r \in {DRBG_generate(kind, OtherCount(gen[i]), ActCall(i).num_bits)} :
                  /\ r.ret = ActRet(i)
                  /\ kind \in {"CTR", "HMAC"} =>
                        /\ Working(kind, r.obj) = Working(kind, gen'[i])
                        /\ r.obj.reseed_counter = gen'[i].reseed_counter + 7
                  /\ kind = "Hash" => r.obj.V # gen'[i].V /\ r.obj.C = gen'[i].C
         /\ (Acts(i) /\ ActCall(i).op = "reseed" /\ kind \in {"CTR", "HMAC"}) =>
               DRBG_reseed(kind, OtherCount(gen[i]), ActCall(i).seed) = gen'[i]
      ]_vars

\* A CTR_DRBG or HMAC_DRBG has served two requests, the second with the
\* bytes it returns from a reseed_counter of 9.
CountNeverReadWitness ==
    /\ kind \in {"CTR", "HMAC"}
    /\ Done(1) = 3
    /\ script[2].op = "generate"
    /\ script[3] = GenerateCall(260)
    /\ gen[1].reseed_counter = 3
    /\ Len(ret[1][3]) = 33
    /\ \E before \in {DRBG_generate(kind, DRBG_new(kind, script[1].seed),
                                     script[2].num_bits).obj} :
          ret[1][3] = DRBG_generate(kind, OtherCount(before), 260).ret

----------------------------------------------------------------------------
(* Two generate calls on one HMAC_DRBG, from two threads.  A thread's step  *)
(* is one read or one write of the members; what a thread computes between *)
(* two accesses is part of the step that follows the read.  With the        *)
(* caller's mutual exclusion a call starts only when no other is running.  *)

RaceThreads == {1, 2}

\* The requests of the two threads: no loop iteration, and one.
RaceRequests == {<<0, 9>>}

\* A thread before its call: no local holds anything yet.
IdleThread ==
    [pc |-> "entry", num_bytes |-> 0, result |-> <<>>, tmp |-> <<>>, r |-> 0]

InitRace ==
    /\ kind = "HMAC"
    /\ gen = [i \in Instances |-> NoObject]
    /\ script = <<>>
    /\ ret = [i \in Instances |-> <<>>]
    /\ call \in {[fn |-> "race", locked |-> l, num_bits |-> n] :
                     l \in BOOLEAN, n \in RaceRequests}
    /\ result = [done |-> FALSE, g |-> HMAC_DRBG_new(Seed(3, 1)),
                 th |-> [t \in RaceThreads |-> IdleThread], lock |-> 0]

\* Thread t is at pc in a call of the two-thread run.
At(t, pc) == call.fn = "race" /\ result.th[t].pc = pc

\* Thread t's step leaves the members g, the thread's locals th and the
\* lock's holder lock.
Advance(t, g, th, lock) ==
    /\ \E ths \in {[result.th EXCEPT ![t] = th]} :
          result' = [done |-> \A u \in RaceThreads : ths[u].pc = "done",
                     g |-> g, th |-> ths, lock |-> lock]
    /\ UNCHANGED <<kind, gen, script, ret, call>>

\* The pc after the loop test "while (result.size() < num_bytes)".
LoopTest(result_, num_bytes) == IF Len(result_) < num_bytes THEN "mac" ELSE "upd_k"

\* size_t num_bytes = (num_bits + 7) / 8; std::vector<uint8_t> result; and
\* the first loop test.
Enter(t) ==
    /\ At(t, "entry")
    /\ call.locked => result.lock = 0
    /\ \E num_bytes \in {CeilDiv(call.num_bits[t], 8)} :
          Advance(t, result.g,
                  [result.th[t] EXCEPT !.num_bytes = num_bytes,
                                       !.pc = LoopTest(<<>>, num_bytes)],
                  IF call.locked THEN t ELSE 0)

\* hmac_sha256(K, V): K and V are read.
Mac(t) ==
    /\ At(t, "mac")
    /\ Advance(t, result.g,
               [result.th[t] EXCEPT !.tmp = hmac_sha256(result.g.K, result.g.V),
                                    !.pc = "set_v"],
               result.lock)

\* V = the value computed.
SetV(t) ==
    /\ At(t, "set_v")
    /\ Advance(t, [result.g EXCEPT !.V = result.th[t].tmp],
               [result.th[t] EXCEPT !.tmp = <<>>, !.pc = "take_v"],
               result.lock)

\* result.insert(result.end(), V.begin(), V.end()): V is read; then the loop
\* test.
TakeV(t) ==
    /\ At(t, "take_v")
    /\ \E r \in {result.th[t].result \o result.g.V} :
          Advance(t, result.g,
                  [result.th[t] EXCEPT !.result = r,
                                       !.pc = LoopTest(r, result.th[t].num_bytes)],
                  result.lock)

\* result.resize(num_bytes), then update({}): temp = V || 0x00 and
\* hmac_sha256(K, temp): V and K are read.
UpdK(t) ==
    /\ At(t, "upd_k")
    /\ Advance(t, result.g,
               [result.th[t] EXCEPT
                   !.result = resize(@, result.th[t].num_bytes),
                   !.tmp = hmac_sha256(result.g.K, Append(result.g.V, 0)),
                   !.pc = "set_k"],
               result.lock)

\* K = the value computed.
SetK(t) ==
    /\ At(t, "set_k")
    /\ Advance(t, [result.g EXCEPT !.K = result.th[t].tmp],
               [result.th[t] EXCEPT !.tmp = <<>>, !.pc = "upd_v"],
               result.lock)

\* hmac_sha256(K, V) of update: K and V are read.
UpdV(t) ==
    /\ At(t, "upd_v")
    /\ Advance(t, result.g,
               [result.th[t] EXCEPT !.tmp = hmac_sha256(result.g.K, result.g.V),
                                    !.pc = "set_v2"],
               result.lock)

\* V = the value computed; provided_data is empty, so update returns.
SetV2(t) ==
    /\ At(t, "set_v2")
    /\ Advance(t, [result.g EXCEPT !.V = result.th[t].tmp],
               [result.th[t] EXCEPT !.tmp = <<>>, !.pc = "rc_read"],
               result.lock)

\* reseed_counter++: the read.
ReadCount(t) ==
    /\ At(t, "rc_read")
    /\ Advance(t, result.g,
               [result.th[t] EXCEPT !.r = result.g.reseed_counter, !.pc = "rc_write"],
               result.lock)

\* An increment that stores the value it read.
Incremented_same(r) == r

\* The value reseed_counter++ stores for the value it read.
Incremented(r) == r + 1

\* reseed_counter++: the write; return result.
WriteCount(t) ==
    /\ At(t, "rc_write")
    /\ Advance(t, [result.g EXCEPT !.reseed_counter = Incremented(result.th[t].r)],
               [result.th[t] EXCEPT !.r = 0, !.pc = "done"],
               0)

NextRace ==
    \E t \in RaceThreads :
        \/ Enter(t)
        \/ Mac(t)
        \/ SetV(t)
        \/ TakeV(t)
        \/ UpdK(t)
        \/ SetK(t)
        \/ UpdV(t)
        \/ SetV2(t)
        \/ ReadCount(t)
        \/ WriteCount(t)

SpecRace == InitRace /\ [][NextRace]_vars

\* The members and the two returned vectors at the end of a two-thread run.
Outcome == <<result.g, result.th[1].result, result.th[2].result>>

\* The outcome when thread first's call runs alone to its return and the
\* other thread's call follows.
SequentialOutcome(first) ==
    Bind(HMAC_DRBG_generate(HMAC_DRBG_new(Seed(3, 1)), call.num_bits[first]),
         LAMBDA a :
    Bind(HMAC_DRBG_generate(a.obj, call.num_bits[3 - first]),
         LAMBDA b :
         IF first = 1 THEN <<b.obj, a.ret, b.ret>> ELSE <<b.obj, b.ret, a.ret>>))

====
